---- MODULE Spec2Model ----
(***************************************************************************)
(* A model of pydoll's HAR recorder (pydoll/browser/requests/              *)
(* har_recorder.py): the HarRecorder event handlers, its background body   *)
(* tasks and its start()/stop() coroutines, running on one asyncio loop    *)
(* next to the tab that dispatches the seven Network events.               *)
(*                                                                         *)
(* A Python dict key that may be missing is an "optional": <<>> when the   *)
(* key is missing (or the value is None), <<v>> when it holds v.           *)
(***************************************************************************)
EXTENDS Integers, Sequences, FiniteSets, TLC

VARIABLES
    tab_network_events_enabled, \* Tab._network_events_enabled
    tab_callbacks,              \* the tab's registry: callback ids registered
    resource_types,             \* HarRecorder._resource_types
    callback_ids,               \* HarRecorder._callback_ids
    network_was_enabled,        \* HarRecorder._network_was_enabled
    pending,                    \* HarRecorder._pending
    pending_keys,               \* the insertion order of the keys of _pending
    entries,                    \* HarRecorder._entries
    body_tasks,                 \* HarRecorder._body_tasks, with each task's position
    data_received_sizes,        \* HarRecorder._data_received_sizes
    phase,                      \* position of the start()/stop() coroutines
    wall_clock,                 \* the browser's wallTime, one tick per request
    delivered,                  \* number of events the tab has delivered
    fetched,                    \* Network.getResponseBody commands sent, by request id
    hist,                       \* what the browser sent for each request (history)
    pure_in,                    \* input of the pure helper under check
    pure_out,                   \* its result
    returned,                   \* what HarCapture last handed to its caller
    saved,                      \* the HAR file HarCapture.save() last wrote
    wire,                       \* the commands handed to connection handlers, in order
    finder,                     \* the find call in progress on a FindElementsMixin
    clock,                      \* the event loop's time, in polling intervals of 0.5 s
    connection                  \* the tab's ConnectionHandler: commands and callbacks

capture_vars == <<returned, saved>>
finder_vars == <<wire, finder, clock>>
pure_vars == <<pure_in, pure_out, capture_vars, finder_vars, connection>>
vars == <<tab_network_events_enabled, tab_callbacks, resource_types, callback_ids,
          network_was_enabled, pending, pending_keys, entries, body_tasks,
          data_received_sizes,
          phase, wall_clock, delivered, fetched, hist, pure_in, pure_out, capture_vars,
          finder_vars, connection>>

----------------------------------------------------------------------------
(* Bounds of the model *)

MaxRequests == 2     \* requestWillBeSent events the browser sends
MaxEvents == 4       \* events the tab delivers to the recorder
MaxBytes == 2        \* bytes the browser sends for one request id in dataReceived chunks
MaxTasks == 2        \* body tasks outstanding at once
MaxEntries == 3      \* entries in the recorder a HarCapture reads
MaxCommands == 2     \* commands one context sends through _execute_command
MaxSegments == 3     \* segments of a selector that crosses iframes
MaxTimeout == 1      \* the timeout of a find call, in seconds
MaxCallers == 3      \* commands outstanding on one connection
MaxCallbacks == 2    \* registrations made through Tab.on
MaxDeliveries == 2   \* events the connection delivers
MaxFound == 2        \* elements one search for all matches finds
MaxTargets == 2      \* targets the browser reports to OOPIF discovery
MaxShadows == 2      \* shadow roots in the document of one target
MaxLoads == 3        \* load events the browser delivers during one page-load wait
MaxChunks == 2       \* chunks the forwarder relays on one client connection
MaxDirs == 2         \* temporary directories the manager tracks

----------------------------------------------------------------------------
(* Optionals and dicts *)

None == <<>>
Some(v) == <<v>>
\* dict.get(key, default)
Get(opt, default) == IF opt = None THEN default ELSE opt[1]
\* dict.setdefault(key, default), as the new value of the key
SetDefault(opt, default) == IF opt = None THEN Some(default) ELSE opt
\* dict.pop(key): the dict without the key
Pop(d, k) == [x \in DOMAIN d \ {k} |-> d[x]]
\* d[key] = value
Put(d, k, v) == [x \in DOMAIN d \cup {k} |-> IF x = k THEN v ELSE d[x]]
EmptyDict == [x \in {} |-> None]
\* del list[i]
RemoveAt(s, i) == [j \in 1..(Len(s) - 1) |-> IF j < i THEN s[j] ELSE s[j + 1]]
\* the keys of a dict, in insertion order, without key k
Without(keys, k) == SelectSeq(keys, LAMBDA x : x # k)

----------------------------------------------------------------------------
(* What the browser can send *)

RequestIds == {1, 2}
ResourceTypes == {"Document", "XHR"}
\* the URL of the k-th request the browser announces: each has its own
Url(k) == <<"https://example.com/", k>>
\* the resource_types argument of HarRecorder(): None, [] or a list of types
ResourceTypeArgs == {None, Some({}), Some({"XHR"})}
\* params.response of responseReceived
Responses == {[status |-> 200, statusText |-> "OK"]}
\* params.redirectResponse of requestWillBeSent: missing, or a Response, whose
\* status and statusText the recorder reads with defaults
RedirectResponses == {None,
                      Some([status |-> Some(301), statusText |-> Some("Moved Permanently")]),
                      Some([status |-> None, statusText |-> None])}
\* params.statusCode of responseReceivedExtraInfo
ExtraStatusCodes == {None, Some(304)}
\* params.encodedDataLength of dataReceived
ChunkSizes == {1, 2}
\* params.encodedDataLength of loadingFinished
TransferSizes == {7}
ErrorTexts == {"net::ERR_FAILED"}
\* a response body is its text, a tuple of characters
TextBodies == {<<"h", "i">>}
\* bodies as Network.getResponseBody can return them: none, text, base64 with
\* and without padding, and text that is no base64
Bodies == {<<>>, <<"h", "i">>, <<"a", "G", "k", "=">>, <<"Q", "U", "J", "D">>, <<"a", "b", "c">>}
\* outcomes of the Network.getResponseBody round trip
FetchOutcomes == {[ok |-> FALSE, body |-> <<>>, base64Encoded |-> FALSE]}
                 \cup {[ok |-> TRUE, body |-> b, base64Encoded |-> FALSE] : b \in TextBodies}

\* the seven events start() registers, in its order
NetworkEvents == <<"requestWillBeSent", "requestWillBeSentExtraInfo", "responseReceived",
                   "responseReceivedExtraInfo", "dataReceived", "loadingFinished",
                   "loadingFailed">>

----------------------------------------------------------------------------
(* Building a HAR entry from a pending dict *)

HTTP_NOT_MODIFIED == 304
DEFAULT_REDIRECT_STATUS == 302

\* A fresh pending dict, as requestWillBeSent writes it.  The optional keys are
\* the ones the later handlers add.  The method, the headers, the post data and
\* the resource type are copied into the entry and decide nothing: they are left out.
NewPending(url, wall_time) ==
    [url |-> url, wall_time |-> wall_time, request_headers_extra |-> None, status |-> None, status_text |-> None,
     extra_status_code |-> None, transfer_size |-> None, body_bytes |-> None,
     response_body |-> None, response_body_base64 |-> None, error_text |-> None]

\* len(base64.b64decode(body)), or "error" when b64decode raises (a length that
\* is no multiple of four): three bytes per four characters, less the padding
PadCount(body) == Cardinality({i \in 1..Len(body) : body[i] = "="})
b64decode_len(body) ==
    IF Len(body) % 4 # 0 THEN None ELSE Some(3 * (Len(body) \div 4) - PadCount(body))

\* content_size of _build_har_response; the text is ASCII, one byte a character
content_size(body, is_base64) ==
    IF body # <<>> /\ is_base64
    THEN Get(b64decode_len(body), Len(body))
    ELSE IF body # <<>> THEN Len(body) ELSE 0

\* a faulty variant: the responseReceived status wins over the extra-info one
effective_status_base_first(p) == Get(p.status, Get(p.extra_status_code, 0))

\* status of _build_har_response
effective_status(p) == Get(p.extra_status_code, Get(p.status, 0))

\* a faulty variant: the accumulated bytes are looked at before the 304 rule
body_size_bytes_first(status, body_bytes, csize) ==
    IF body_bytes > 0 THEN body_bytes
    ELSE IF status = HTTP_NOT_MODIFIED THEN 0
    ELSE IF csize > 0 THEN csize
    ELSE -1

\* body_size of _build_har_response
body_size(status, body_bytes, csize) ==
    IF status = HTTP_NOT_MODIFIED THEN 0
    ELSE IF body_bytes > 0 THEN body_bytes
    ELSE IF csize > 0 THEN csize
    ELSE -1

build_har_response(p) ==
    LET body == Get(p.response_body, <<>>)
        is_base64 == Get(p.response_body_base64, FALSE)
        status == effective_status(p)
        csize == content_size(body, is_base64)
    IN [status |-> status,
        statusText |-> Get(p.status_text, ""),
        content_size |-> csize,
        bodySize |-> body_size(status, Get(p.body_bytes, -1), csize)]

\* _build_entry: the fields of the entry the recorder's state machine decides
build_entry(p) ==
    [startedDateTime |-> p.wall_time,
     url |-> p.url,
     response |-> build_har_response(p)]

----------------------------------------------------------------------------
(* The recorder's tables as one value R = [pending, keys, entries, sizes],   *)
(* and the synchronous helpers as functions of it                            *)

Tables ==
    [pending |-> pending, keys |-> pending_keys, entries |-> entries,
     sizes |-> data_received_sizes]

\* self._pending.pop(request_id, None): the tables afterwards
pending_pop(R, request_id) ==
    [R EXCEPT !.pending = Pop(R.pending, request_id),
              !.keys = Without(R.keys, request_id)]

\* self._pending[request_id] = p: a new key goes last, a known key keeps its place
pending_put(R, request_id, p) ==
    [R EXCEPT !.pending = Put(R.pending, request_id, p),
              !.keys = IF request_id \in DOMAIN R.pending THEN @ ELSE Append(@, request_id)]

\* self._data_received_sizes.pop(request_id, -1): the value returned
sizes_pop(R, request_id) ==
    IF request_id \in DOMAIN R.sizes THEN R.sizes[request_id] ELSE -1

\* a faulty variant: the redirected request is taken off the table and forgotten
finalize_redirect_entry_forgets(R, request_id, redirect_response) ==
    [pending_pop(R, request_id) EXCEPT !.sizes = Pop(@, request_id)]

finalize_redirect_entry(R, request_id, redirect_response) ==
    IF request_id \notin DOMAIN R.pending THEN R
    ELSE LET p == [R.pending[request_id] EXCEPT
                      !.body_bytes = Some(sizes_pop(R, request_id)),
                      !.status = Some(Get(redirect_response.status, DEFAULT_REDIRECT_STATUS)),
                      !.status_text = Some(Get(redirect_response.statusText, ""))]
             R1 == pending_pop(R, request_id)
         IN [R1 EXCEPT !.entries = Append(@, build_entry(p)),
                       !.sizes = Pop(@, request_id)]

\* _flush_pending over list(self._pending.keys())
RECURSIVE flush_keys(_, _)
flush_keys(R, keys) ==
    IF keys = <<>> THEN R
    ELSE LET request_id == Head(keys)
             p == [R.pending[request_id] EXCEPT
                      !.status = SetDefault(@, 0),
                      !.status_text = SetDefault(@, "(pending)")]
             R1 == pending_pop(R, request_id)
         IN flush_keys([R1 EXCEPT !.entries = Append(@, build_entry(p))], Tail(keys))

\* a faulty variant: the flush empties the table without building the entries
flush_pending_forgets(R) == [R EXCEPT !.pending = EmptyDict, !.keys = <<>>]

flush_pending(R) == flush_keys(R, R.keys)

\* a faulty variant: the test is inverted
filtered_out_inverted(resource_type) ==
    resource_types # None /\ resource_type \in resource_types[1]

\* the resource-type test of _on_request_will_be_sent: TRUE when the event is dropped
filtered_out(resource_type) ==
    resource_types # None /\ resource_type \notin resource_types[1]

\* the body of _on_request_will_be_sent past the filter
request_will_be_sent(R, request_id, url, redirect_response, wall_time) ==
    LET R1 == IF redirect_response # None /\ request_id \in DOMAIN R.pending
              THEN finalize_redirect_entry(R, request_id, redirect_response[1])
              ELSE R
    IN pending_put(R1, request_id, NewPending(url, wall_time))

\* a faulty variant: a failed request is given status 0 whatever it had
loading_failed_zeroes(R, request_id, error_text) ==
    LET p == [R.pending[request_id] EXCEPT
                 !.status = Some(0),
                 !.status_text = SetDefault(@, error_text),
                 !.error_text = Some(error_text)]
        R1 == pending_pop(R, request_id)
    IN [R1 EXCEPT !.sizes = Pop(@, request_id),
                  !.entries = Append(@, build_entry(p))]

\* _on_loading_failed for a pending request
loading_failed(R, request_id, error_text) ==
    LET p == [R.pending[request_id] EXCEPT
                 !.status = SetDefault(@, 0),
                 !.status_text = SetDefault(@, error_text),
                 !.error_text = Some(error_text)]
        R1 == pending_pop(R, request_id)
    IN [R1 EXCEPT !.sizes = Pop(@, request_id),
                  !.entries = Append(@, build_entry(p))]

----------------------------------------------------------------------------
(* History: the requests the browser announced, by wallTime, with what it    *)
(* sent for each while the request was pending (the number of                *)
(* loadingFinished events, the last extra-info status code, the bytes sent   *)
(* for its id before the first loadingFinished, the status of the last       *)
(* responseReceived); the bytes it sent for each                             *)
(* request id; the argument the recorder was constructed with; whether the   *)
(* tab's Network domain was enabled then; and what ended with an exception   *)
(* (a handler, a body task, a body task stop() awaits).  The recorder never  *)
(* reads it.                                                                 *)

NewRequest(request_id, resource_type) ==
    [request_id |-> request_id, resource_type |-> resource_type,
     loading_finished |-> 0, extra_status |-> None, bytes_before_finished |-> None,
     response_status |-> None]

\* the request that is pending under request_id
WallTimeOf(request_id) == pending[request_id].wall_time

Noted(request_id, field, value) ==
    IF request_id \in DOMAIN pending
    THEN [hist EXCEPT !.requests[WallTimeOf(request_id)][field] = value]
    ELSE hist

----------------------------------------------------------------------------
(* Initial state: a recorder just constructed on a tab *)

\* no HarCapture has been read
CaptureIdle ==
    /\ returned = None
    /\ saved = None

\* no find call has been made and no command sent
FinderIdle ==
    /\ wire = <<>>
    /\ finder = None
    /\ clock = 0

\* how a call ends
Returned(value) == [kind |-> "returned", value |-> value]
Raised(exc) == [kind |-> "raised", exc |-> exc]

\* the callers of execute_command, one command each
Callers == 1..MaxCallers

\* a connection just opened: no command sent, no callback registered
ConnectionIdle ==
    connection = [open |-> TRUE, id |-> 0, pending_commands |-> {}, sent |-> <<>>,
                  answered |-> {}, callers |-> [caller \in Callers |-> None],
                  callback_id |-> 0, event_callbacks |-> <<>>, deliveries |-> <<>>,
                  invocations |-> <<>>, tasks |-> <<>>, asked |-> <<>>]

\* frozenset(resource_types) if resource_types else None
init_resource_types(arg) == IF arg # None /\ arg[1] # {} THEN arg ELSE None

\* HarRecorder.__init__, on a tab whose Network domain is on or off
Init ==
    /\ tab_network_events_enabled \in BOOLEAN
    /\ tab_callbacks = {}
    /\ \E arg \in ResourceTypeArgs :
          /\ resource_types = init_resource_types(arg)
          /\ hist = [requests |-> <<>>, received |-> [r \in RequestIds |-> 0],
                     resource_types_arg |-> arg,
                     network_events_before |-> tab_network_events_enabled,
                     raised |-> {}]
    /\ callback_ids = <<>>
    /\ network_was_enabled = FALSE
    /\ pending = EmptyDict
    /\ pending_keys = <<>>
    /\ entries = <<>>
    /\ body_tasks = <<>>
    /\ data_received_sizes = EmptyDict
    /\ phase = "new"
    /\ wall_clock = 0
    /\ delivered = 0
    /\ fetched = {}
    /\ pure_in = None
    /\ pure_out = None
    /\ CaptureIdle
    /\ FinderIdle
    /\ ConnectionIdle

SetTables(R) ==
    /\ pending' = R.pending
    /\ pending_keys' = R.keys
    /\ entries' = R.entries
    /\ data_received_sizes' = R.sizes

\* the tab calls the handler of event number i: the Network domain is enabled
\* and the recorder's callback for the event is registered
Delivers(i) ==
    /\ tab_network_events_enabled
    /\ i \in tab_callbacks
    /\ delivered < MaxEvents
    /\ delivered' = delivered + 1

control_vars == <<tab_network_events_enabled, tab_callbacks, resource_types, callback_ids,
                  network_was_enabled, phase, pure_vars>>

----------------------------------------------------------------------------
(* The seven event handlers *)

on_request_will_be_sent(request_id, resource_type, redirect_response) ==
    /\ Delivers(1)
    /\ wall_clock < MaxRequests
    /\ wall_clock' = wall_clock + 1
    /\ hist' = [hist EXCEPT !.requests = Append(@, NewRequest(request_id, resource_type))]
    /\ IF filtered_out(resource_type)
       THEN UNCHANGED <<pending, pending_keys, entries, data_received_sizes>>
       ELSE SetTables(request_will_be_sent(Tables, request_id, Url(wall_clock + 1),
                                           redirect_response, wall_clock + 1))
    /\ UNCHANGED <<control_vars, body_tasks, fetched>>

\* the headers themselves are not modelled, only that extra ones were merged
on_request_extra_info(request_id, has_headers) ==
    /\ Delivers(2)
    /\ IF request_id \notin DOMAIN pending
       THEN UNCHANGED pending
       ELSE pending' = [pending EXCEPT ![request_id].request_headers_extra =
                            IF has_headers THEN Some(TRUE) ELSE @]
    /\ UNCHANGED <<control_vars, pending_keys, entries, data_received_sizes, body_tasks,
                   wall_clock, fetched, hist>>

\* a faulty variant: the response is written to a dict made on the spot when
\* nothing is pending under the id
on_response_received_creates(request_id, response) ==
    /\ Delivers(3)
    /\ LET p == IF request_id \in DOMAIN pending THEN pending[request_id]
                ELSE NewPending(<<>>, 0)
       IN pending' = Put(pending, request_id,
                         [p EXCEPT !.status = Some(response.status),
                                   !.status_text = Some(response.statusText)])
    /\ pending_keys' = IF request_id \in DOMAIN pending THEN pending_keys
                       ELSE Append(pending_keys, request_id)
    /\ hist' = Noted(request_id, "response_status", Some(response.status))
    /\ UNCHANGED <<control_vars, entries, data_received_sizes, body_tasks,
                   wall_clock, fetched>>

on_response_received(request_id, response) ==
    /\ Delivers(3)
    /\ IF request_id \notin DOMAIN pending
       THEN UNCHANGED pending
       ELSE pending' = [pending EXCEPT ![request_id].status = Some(response.status),
                                       ![request_id].status_text = Some(response.statusText)]
    /\ hist' = Noted(request_id, "response_status", Some(response.status))
    /\ UNCHANGED <<control_vars, pending_keys, entries, data_received_sizes, body_tasks,
                   wall_clock, fetched>>

\* a faulty variant: the status code is written to every pending dict
on_response_extra_info_all(request_id, status_code) ==
    /\ Delivers(4)
    /\ IF request_id \notin DOMAIN pending
       THEN UNCHANGED pending
       ELSE pending' = [r \in DOMAIN pending |->
                           [pending[r] EXCEPT !.extra_status_code =
                               IF status_code # None THEN status_code ELSE @]]
    /\ hist' = IF status_code # None THEN Noted(request_id, "extra_status", status_code)
               ELSE hist
    /\ UNCHANGED <<control_vars, pending_keys, entries, data_received_sizes, body_tasks,
                   wall_clock, fetched>>

on_response_extra_info(request_id, status_code) ==
    /\ Delivers(4)
    /\ IF request_id \notin DOMAIN pending
       THEN UNCHANGED pending
       ELSE pending' = [pending EXCEPT ![request_id].extra_status_code =
                            IF status_code # None THEN status_code ELSE @]
    /\ hist' = IF status_code # None THEN Noted(request_id, "extra_status", status_code)
               ELSE hist
    /\ UNCHANGED <<control_vars, pending_keys, entries, data_received_sizes, body_tasks,
                   wall_clock, fetched>>

\* a faulty variant: a chunk replaces the running total
on_data_received_overwrites(request_id, chunk_size) ==
    /\ Delivers(5)
    /\ hist.received[request_id] + chunk_size <= MaxBytes
    /\ data_received_sizes' = Put(data_received_sizes, request_id, chunk_size)
    /\ hist' = [hist EXCEPT !.received[request_id] = @ + chunk_size]
    /\ UNCHANGED <<control_vars, pending, pending_keys, entries, body_tasks, wall_clock,
                   fetched>>

on_data_received(request_id, chunk_size) ==
    /\ Delivers(5)
    /\ hist.received[request_id] + chunk_size <= MaxBytes
    /\ data_received_sizes' =
          Put(data_received_sizes, request_id,
              (IF request_id \in DOMAIN data_received_sizes
               THEN data_received_sizes[request_id] ELSE 0) + chunk_size)
    /\ hist' = [hist EXCEPT !.received[request_id] = @ + chunk_size]
    /\ UNCHANGED <<control_vars, pending, pending_keys, entries, body_tasks, wall_clock,
                   fetched>>

\* a body task just created by asyncio.create_task(self._finalize_entry(request_id))
NewTask(request_id) ==
    [request_id |-> request_id, pc |-> "created", pending |-> None, awaited |-> FALSE]

on_loading_finished(request_id, encoded_data_length) ==
    /\ Delivers(6)
    /\ IF request_id \notin DOMAIN pending
       THEN UNCHANGED <<pending, data_received_sizes, body_tasks, hist>>
       ELSE /\ Len(body_tasks) < MaxTasks
            /\ pending' = [pending EXCEPT
                              ![request_id].transfer_size = Some(encoded_data_length),
                              ![request_id].body_bytes = Some(sizes_pop(Tables, request_id))]
            /\ data_received_sizes' = Pop(data_received_sizes, request_id)
            /\ body_tasks' = Append(body_tasks, NewTask(request_id))
            /\ hist' = [hist EXCEPT
                           !.requests[WallTimeOf(request_id)].loading_finished = @ + 1,
                           !.requests[WallTimeOf(request_id)].bytes_before_finished =
                               IF @ = None THEN Some(hist.received[request_id]) ELSE @]
    /\ UNCHANGED <<control_vars, pending_keys, entries, wall_clock, fetched>>

on_loading_failed(request_id, error_text) ==
    /\ Delivers(7)
    /\ IF request_id \notin DOMAIN pending
       THEN UNCHANGED <<pending, pending_keys, entries, data_received_sizes>>
       ELSE SetTables(loading_failed(Tables, request_id, error_text))
    /\ UNCHANGED <<control_vars, body_tasks, wall_clock, fetched, hist>>

----------------------------------------------------------------------------
(* The background body tasks: _finalize_entry, suspended once, on the         *)
(* Network.getResponseBody round trip                                        *)

\* _fetch_response_body: (body, base64_encoded), or ('', False) when the command fails
fetch_response_body(outcome) ==
    IF outcome.ok THEN <<outcome.body, outcome.base64Encoded>> ELSE <<<<>>, FALSE>>

\* the loop runs tasks' first steps in the order of their creation
FirstCreated(i) ==
    /\ body_tasks[i].pc = "created"
    /\ \A j \in 1..(i - 1) : body_tasks[j].pc # "created"

\* a faulty variant: the task reads the pending dict and leaves it in the table
finalize_entry_begin_keeps(i) ==
    LET request_id == body_tasks[i].request_id IN
    /\ FirstCreated(i)
    /\ IF request_id \notin DOMAIN pending
       THEN /\ body_tasks' = RemoveAt(body_tasks, i)
            /\ UNCHANGED fetched
       ELSE /\ body_tasks' = [body_tasks EXCEPT ![i].pc = "fetching",
                                                 ![i].pending = Some(pending[request_id])]
            /\ fetched' = fetched \cup {request_id}
    /\ UNCHANGED <<control_vars, pending, pending_keys, entries, data_received_sizes,
                   wall_clock, delivered, hist>>

\* _finalize_entry up to its await: pop the pending dict, send the command.
\* A task that finds nothing pending is done, and its done callback takes it
\* off _body_tasks.
finalize_entry_begin(i) ==
    LET request_id == body_tasks[i].request_id IN
    /\ FirstCreated(i)
    /\ IF request_id \notin DOMAIN pending
       THEN /\ body_tasks' = RemoveAt(body_tasks, i)
            /\ UNCHANGED <<pending, pending_keys, fetched>>
       ELSE /\ body_tasks' = [body_tasks EXCEPT ![i].pc = "fetching",
                                                 ![i].pending = Some(pending[request_id])]
            /\ pending' = Pop(pending, request_id)
            /\ pending_keys' = Without(pending_keys, request_id)
            /\ fetched' = fetched \cup {request_id}
    /\ UNCHANGED <<control_vars, entries, data_received_sizes, wall_clock, delivered, hist>>

\* a faulty variant: the task ends after the fetch without appending an entry
finalize_entry_end_drops(i, outcome) ==
    /\ body_tasks[i].pc = "fetching"
    /\ body_tasks' = RemoveAt(body_tasks, i)
    /\ UNCHANGED <<control_vars, pending, pending_keys, entries, data_received_sizes,
                   wall_clock, delivered, fetched, hist>>

\* _finalize_entry from the command's outcome on: build and append the entry
finalize_entry_end(i, outcome) ==
    /\ body_tasks[i].pc = "fetching"
    /\ LET got == fetch_response_body(outcome)
           p == [body_tasks[i].pending[1] EXCEPT !.response_body = Some(got[1]),
                                                 !.response_body_base64 = Some(got[2])]
       IN entries' = Append(entries, build_entry(p))
    /\ body_tasks' = RemoveAt(body_tasks, i)
    /\ UNCHANGED <<control_vars, pending, pending_keys, data_received_sizes, wall_clock, delivered,
                   fetched, hist>>

----------------------------------------------------------------------------
(* start() and stop(), one action per stretch between two awaits *)

NumEvents == Len(NetworkEvents)

\* tab.on() and tab.remove_callback() hand over to the connection's callback
\* registry and do not suspend (the suspension points are the command round
\* trips, the sleeps and the body tasks), so start()'s and stop()'s loops over the
\* seven callbacks each run in one stretch.  The tab's callback id of the k-th
\* event is k.
\* a faulty variant: the last of the events gets no callback
register_all_but_last(ids, k) == ids \o [i \in 1..(NumEvents - 1) |-> i]

RECURSIVE register_all(_, _)
register_all(ids, k) ==
    IF k > NumEvents THEN ids ELSE register_all(Append(ids, k), k + 1)

Range(seq) == {seq[i] : i \in DOMAIN seq}

\* start() up to its await of enable_network_events()
start_enable ==
    /\ phase = "new"
    /\ ~tab_network_events_enabled
    /\ tab_network_events_enabled' = TRUE
    /\ network_was_enabled' = TRUE
    /\ phase' = "enabled"
    /\ UNCHANGED <<tab_callbacks, resource_types, callback_ids, pending, pending_keys,
                   entries, body_tasks, data_received_sizes, wall_clock, delivered, fetched, hist,
                   pure_vars>>

\* the rest of start(): register the seven handlers
start_register ==
    /\ \/ phase = "enabled"
       \/ phase = "new" /\ tab_network_events_enabled
    /\ callback_ids' = register_all(callback_ids, 1)
    /\ tab_callbacks' = tab_callbacks \cup Range(callback_ids')
    /\ phase' = "recording"
    /\ UNCHANGED <<tab_network_events_enabled, resource_types, network_was_enabled, pending,
                   pending_keys, entries, body_tasks, data_received_sizes, wall_clock, delivered,
                   fetched, hist, pure_vars>>

\* a faulty variant: stop() goes on to disable the Network domain whoever enabled it
stop_flush_always_disables ==
    /\ body_tasks' = <<>>
    /\ SetTables(flush_pending(Tables))
    /\ phase' = "disabling"

\* stop() past its await of the body tasks: clear the list, flush, and either
\* go on to disable the Network domain or return
stop_flush ==
    /\ body_tasks' = <<>>
    /\ SetTables(flush_pending(Tables))
    /\ phase' = IF network_was_enabled THEN "disabling" ELSE "stopped"

\* stop() up to its first await: remove the callbacks, clear the ids, and either
\* await the body tasks there are or go straight on to the flush
stop_remove ==
    /\ phase = "recording"
    /\ tab_callbacks' = tab_callbacks \ Range(callback_ids)
    /\ callback_ids' = <<>>
    /\ IF body_tasks # <<>>
       THEN /\ body_tasks' = [i \in DOMAIN body_tasks |->
                                 [body_tasks[i] EXCEPT !.awaited = TRUE]]
            /\ phase' = "gathering"
            /\ UNCHANGED <<pending, pending_keys, entries, data_received_sizes>>
       ELSE stop_flush
    /\ UNCHANGED <<tab_network_events_enabled, resource_types, network_was_enabled,
                   wall_clock, delivered, fetched, hist, pure_vars>>

\* a faulty variant: gather without return_exceptions, so that the exception of
\* a task it awaits ends stop()
stop_gathered_propagates ==
    /\ phase = "gathering"
    /\ \A i \in DOMAIN body_tasks : ~body_tasks[i].awaited
    /\ IF "awaited task" \in hist.raised
       THEN /\ phase' = "raised"
            /\ UNCHANGED <<pending, pending_keys, entries, data_received_sizes, body_tasks>>
       ELSE stop_flush
    /\ UNCHANGED <<tab_network_events_enabled, tab_callbacks, resource_types, callback_ids,
                   network_was_enabled, wall_clock, delivered, fetched, hist, pure_vars>>

\* asyncio.gather(*self._body_tasks, return_exceptions=True) returns: every task
\* it was given is done, however it ended
stop_gathered ==
    /\ phase = "gathering"
    /\ \A i \in DOMAIN body_tasks : ~body_tasks[i].awaited
    /\ stop_flush
    /\ UNCHANGED <<tab_network_events_enabled, tab_callbacks, resource_types, callback_ids,
                   network_was_enabled, wall_clock, delivered, fetched, hist, pure_vars>>

\* the end of stop(): disable the Network domain the recorder enabled
stop_disable ==
    /\ phase = "disabling"
    /\ tab_network_events_enabled' = FALSE
    /\ network_was_enabled' = FALSE
    /\ phase' = "stopped"
    /\ UNCHANGED <<tab_callbacks, resource_types, callback_ids, pending, pending_keys,
                   entries, body_tasks, data_received_sizes, wall_clock, delivered, fetched, hist,
                   pure_vars>>

----------------------------------------------------------------------------
(* The recorder on its loop *)

RequestWillBeSent ==
    \E request_id \in RequestIds, resource_type \in ResourceTypes,
       redirect_response \in RedirectResponses :
        on_request_will_be_sent(request_id, resource_type, redirect_response)
RequestWillBeSentExtraInfo ==
    \E request_id \in RequestIds, has_headers \in BOOLEAN :
        on_request_extra_info(request_id, has_headers)
ResponseReceived ==
    \E request_id \in RequestIds, response \in Responses :
        on_response_received(request_id, response)
ResponseReceivedExtraInfo ==
    \E request_id \in RequestIds, status_code \in ExtraStatusCodes :
        on_response_extra_info(request_id, status_code)
DataReceived ==
    \E request_id \in RequestIds, chunk_size \in ChunkSizes :
        on_data_received(request_id, chunk_size)
LoadingFinished ==
    \E request_id \in RequestIds, encoded_data_length \in TransferSizes :
        on_loading_finished(request_id, encoded_data_length)
LoadingFailed ==
    \E request_id \in RequestIds, error_text \in ErrorTexts :
        on_loading_failed(request_id, error_text)
BodyTaskBegins == \E i \in DOMAIN body_tasks : finalize_entry_begin(i)
BodyTaskEnds ==
    \E i \in DOMAIN body_tasks, outcome \in FetchOutcomes : finalize_entry_end(i, outcome)

Next ==
    \/ start_enable
    \/ start_register
    \/ RequestWillBeSent
    \/ RequestWillBeSentExtraInfo
    \/ ResponseReceived
    \/ ResponseReceivedExtraInfo
    \/ DataReceived
    \/ LoadingFinished
    \/ LoadingFailed
    \/ BodyTaskBegins
    \/ BodyTaskEnds
    \/ stop_remove
    \/ stop_gathered
    \/ stop_disable

Spec == Init /\ [][Next]_vars

----------------------------------------------------------------------------
(* The recorder with faults: events that lack a field a handler reads as     *)
(* params[...], and body tasks that end with an exception                    *)

\* the fields a handler reads without a default, by the event's number
RequiredFields ==
    <<{"requestId", "request", "wallTime", "timestamp"},
      {"requestId"},
      {"requestId", "response", "status", "statusText", "mimeType", "timestamp"},
      {"requestId"},
      {"requestId", "encodedDataLength"},
      {"requestId", "encodedDataLength", "timestamp"},
      {"requestId", "errorText"}>>

\* events that lack one of them; a requestWillBeSent has its type and its
\* redirectResponse, a responseReceived what there is of its response
MalformedEvents ==
    {[k |-> 1, request_id |-> request_id, missing |-> missing, resource_type |-> resource_type,
      redirect_response |-> redirect_response] :
        request_id \in RequestIds, missing \in RequiredFields[1],
        resource_type \in ResourceTypes, redirect_response \in RedirectResponses}
    \cup {[k |-> k, request_id |-> request_id, missing |-> missing, resource_type |-> "",
           redirect_response |-> None] :
            k \in 2..NumEvents, request_id \in RequestIds,
            missing \in UNION {RequiredFields[j] : j \in 2..NumEvents}}

\* the handler of the event's number run on the event, up to the KeyError of
\* the missing field, or to its return when it does not come to read the
\* field: the tables as the run leaves them, and whether it raised
handler_on_malformed(R, event) ==
    LET request_id == event.request_id
        known == request_id \in DOMAIN R.pending
        response == CHOOSE r \in Responses : TRUE
        Raises(R1) == [raised |-> TRUE, R |-> R1]
        Returns == [raised |-> FALSE, R |-> R]
    IN CASE event.missing = "requestId" -> Raises(R)
         [] event.missing # "requestId" /\ event.k = 1 ->
              IF event.missing = "request" THEN Raises(R)
              ELSE IF filtered_out(event.resource_type) THEN Returns
              ELSE IF event.redirect_response # None /\ known
              THEN Raises(finalize_redirect_entry(R, request_id, event.redirect_response[1]))
              ELSE Raises(R)
         [] event.missing # "requestId" /\ event.k = 3 ->
              IF ~known THEN Returns
              ELSE IF event.missing \in {"response", "status"} THEN Raises(R)
              ELSE IF event.missing = "statusText"
              THEN Raises([R EXCEPT !.pending[request_id].status = Some(response.status)])
              ELSE Raises([R EXCEPT
                              !.pending[request_id].status = Some(response.status),
                              !.pending[request_id].status_text = Some(response.statusText)])
         [] event.missing # "requestId" /\ event.k = 5 -> Raises(R)
         [] event.missing # "requestId" /\ event.k = 6 ->
              IF ~known THEN Returns
              ELSE IF event.missing = "encodedDataLength" THEN Raises(R)
              ELSE Raises([R EXCEPT !.pending[request_id].transfer_size =
                                        Some(CHOOSE n \in TransferSizes : TRUE)])
         [] event.missing # "requestId" /\ event.k = 7 ->
              IF ~known THEN Returns
              ELSE Raises([pending_pop(R, request_id) EXCEPT !.sizes = Pop(@, request_id)])

\* the tab delivers an event that lacks a field its handler requires
malformed_event(event) ==
    /\ event.missing \in RequiredFields[event.k]
    /\ Delivers(event.k)
    /\ LET run == handler_on_malformed(Tables, event) IN
          /\ SetTables(run.R)
          /\ hist' = [hist EXCEPT !.raised = IF run.raised THEN @ \cup {"handler"} ELSE @]
    /\ UNCHANGED <<control_vars, body_tasks, wall_clock, fetched>>

\* _finalize_entry ends with an exception after its await (nothing in it
\* catches what _build_entry raises, and a task can be cancelled): no entry is
\* appended, and the task's done callback takes it off _body_tasks
finalize_entry_raises(i) ==
    /\ body_tasks[i].pc = "fetching"
    /\ body_tasks' = RemoveAt(body_tasks, i)
    /\ hist' = [hist EXCEPT !.raised = @ \cup {IF body_tasks[i].awaited THEN "awaited task"
                                               ELSE "task"}]
    /\ UNCHANGED <<control_vars, pending, pending_keys, entries, data_received_sizes,
                   wall_clock, delivered, fetched>>

NextFaults ==
    \/ Next
    \/ \E event \in MalformedEvents : malformed_event(event)
    \/ \E i \in DOMAIN body_tasks : finalize_entry_raises(i)

SpecFaults == Init /\ [][NextFaults]_vars

----------------------------------------------------------------------------
(* The pure helpers on their own: a pending dict drawn from the values its     *)
(* keys can hold, and _build_har_response applied to it                      *)

PendingDicts ==
    {[NewPending(Url(1), 1) EXCEPT !.status = status, !.extra_status_code = extra,
                                   !.body_bytes = body_bytes, !.response_body = Some(body),
                                   !.response_body_base64 = Some(is_base64)] :
        status \in {None, Some(200), Some(HTTP_NOT_MODIFIED)},
        extra \in {None, Some(HTTP_NOT_MODIFIED), Some(404)},
        body_bytes \in {None} \cup {Some(n) : n \in -1..MaxBytes},
        body \in Bodies, is_base64 \in BOOLEAN}

InitPure ==
    /\ tab_network_events_enabled = FALSE
    /\ tab_callbacks = {}
    /\ resource_types = None
    /\ callback_ids = <<>>
    /\ network_was_enabled = FALSE
    /\ pending = EmptyDict
    /\ pending_keys = <<>>
    /\ entries = <<>>
    /\ body_tasks = <<>>
    /\ data_received_sizes = EmptyDict
    /\ phase = "new"
    /\ wall_clock = 0
    /\ delivered = 0
    /\ fetched = {}
    /\ hist = [requests |-> <<>>, received |-> [r \in RequestIds |-> 0],
               resource_types_arg |-> None]
    /\ pure_in \in {Some(p) : p \in PendingDicts}
    /\ pure_out = None
    /\ CaptureIdle
    /\ FinderIdle
    /\ ConnectionIdle

apply_build_har_response ==
    /\ pure_in # None
    /\ pure_out = None
    /\ pure_out' = Some(build_har_response(pure_in[1]))
    /\ UNCHANGED <<tab_network_events_enabled, tab_callbacks, resource_types, callback_ids,
                   network_was_enabled, pending, pending_keys, entries, body_tasks,
                   data_received_sizes, phase, wall_clock, delivered, fetched, hist,
                   pure_in, capture_vars, finder_vars, connection>>

NextPure == apply_build_har_response

SpecPure == InitPure /\ [][NextPure]_vars

----------------------------------------------------------------------------
(* The timings of an entry: _build_har_timings and the entry's time in        *)
(* _build_entry.  Times are whole numbers of TimeUnit, a ten-thousandth of a  *)
(* millisecond, so that rounding to three and to two decimals both act.      *)

Ms == 10000               \* one millisecond, in TimeUnits
Absent == 0 - Ms          \* the -1 a missing start or end is reported as

\* round(x, n) of Python for a step of q TimeUnits: to the nearest multiple of
\* q, an exact tie to the even one
round_to(x, q) ==
    LET r == x % q
        lo == x - r
    IN IF 2 * r < q THEN lo
       ELSE IF 2 * r > q THEN lo + q
       ELSE IF (lo \div q) % 2 = 0 THEN lo ELSE lo + q
round3(x) == round_to(x, Ms \div 1000)
round2(x) == round_to(x, Ms \div 100)
Max(a, b) == IF a >= b THEN a ELSE b

\* _phase of _build_har_timings
\* a faulty variant: a phase that cannot be computed is reported as 0
phase_ms_zero(s, e) == IF s >= 0 /\ e >= 0 THEN round3(Max(e - s, 0)) ELSE 0

phase_ms(s, e) == IF s >= 0 /\ e >= 0 THEN round3(Max(e - s, 0)) ELSE Absent

\* receive_ms of _build_entry: None unless both timestamps are there and in order
receive_ms(response_ts, finished_ts) ==
    IF response_ts # 0 /\ finished_ts # 0 /\ finished_ts > response_ts
    THEN Some(finished_ts - response_ts) ELSE None

build_har_timings(timing, receive) ==
    LET rcv == IF receive # None THEN round3(receive[1]) ELSE 0 IN
    IF timing = None
    THEN [blocked |-> Absent, dns |-> Absent, connect |-> Absent, ssl |-> Absent,
          send |-> 0, wait |-> 0, receive |-> rcv]
    ELSE LET t == timing[1]
             first == IF t.dnsStart >= 0 THEN t.dnsStart
                      ELSE IF t.connectStart >= 0 THEN t.connectStart ELSE t.sendStart
         IN [blocked |-> round3(Max(first, 0)),
             dns |-> phase_ms(t.dnsStart, t.dnsEnd),
             connect |-> phase_ms(t.connectStart, t.connectEnd),
             ssl |-> phase_ms(t.sslStart, t.sslEnd),
             send |-> round3(Max(t.sendEnd - t.sendStart, 0)),
             wait |-> round3(Max(t.receiveHeadersStart - t.sendEnd, 0)),
             receive |-> rcv]

Positive(v) == IF v > 0 THEN v ELSE 0

\* a faulty variant: the ssl phase is counted on top of connect
entry_time_with_ssl(timings) ==
    round2(Positive(timings.blocked) + Positive(timings.dns) + Positive(timings.connect)
           + Positive(timings.ssl) + Positive(timings.send) + Positive(timings.wait)
           + Positive(timings.receive))

\* time of _build_entry: the phases above zero, ssl left out, to two decimals
entry_time(timings) ==
    round2(Positive(timings.blocked) + Positive(timings.dns) + Positive(timings.connect)
           + Positive(timings.send) + Positive(timings.wait) + Positive(timings.receive))

\* the keys of a pending dict the timings are built from
build_entry_timings(p) ==
    LET timings == build_har_timings(p.timing,
                                     receive_ms(p.response_timestamp, p.finished_timestamp))
    IN [timings |-> timings, time |-> entry_time(timings)]

\* starts and ends as the browser reports them, in TimeUnits: a phase that did
\* not happen has -1 for both
DnsTimes == {<<Absent, Absent>>, <<5004, 50000>>}
ConnectTimes == {<<Absent, Absent>>, <<50000, 500156>>}
SslTimes == {<<Absent, Absent>>, <<100000, 450000>>, <<100000, 200007>>}
SendTimes == {<<500156, 510193>>, <<0, 0>>}
ReceiveHeadersStarts == {0, 1000000}
Timestamps == {<<0, 0>>, <<123460000, 123465025>>, <<123460000, 123460000>>}

ResourceTimings ==
    {[dnsStart |-> dns[1], dnsEnd |-> dns[2], connectStart |-> con[1], connectEnd |-> con[2],
      sslStart |-> ssl[1], sslEnd |-> ssl[2], sendStart |-> snd[1], sendEnd |-> snd[2],
      receiveHeadersStart |-> rh_s] :
        dns \in DnsTimes, con \in ConnectTimes, ssl \in SslTimes, snd \in SendTimes,
        rh_s \in ReceiveHeadersStarts}

TimedPendingDicts ==
    {[timing |-> timing, response_timestamp |-> ts[1], finished_timestamp |-> ts[2]] :
        timing \in {None} \cup {Some(t) : t \in ResourceTimings}, ts \in Timestamps}

InitTimings ==
    /\ tab_network_events_enabled = FALSE
    /\ tab_callbacks = {}
    /\ resource_types = None
    /\ callback_ids = <<>>
    /\ network_was_enabled = FALSE
    /\ pending = EmptyDict
    /\ pending_keys = <<>>
    /\ entries = <<>>
    /\ body_tasks = <<>>
    /\ data_received_sizes = EmptyDict
    /\ phase = "new"
    /\ wall_clock = 0
    /\ delivered = 0
    /\ fetched = {}
    /\ hist = [requests |-> <<>>, received |-> [r \in RequestIds |-> 0],
               resource_types_arg |-> None]
    /\ pure_in \in {Some(p) : p \in TimedPendingDicts}
    /\ pure_out = None
    /\ CaptureIdle
    /\ FinderIdle
    /\ ConnectionIdle

apply_build_entry_timings ==
    /\ pure_in # None
    /\ pure_out = None
    /\ pure_out' = Some(build_entry_timings(pure_in[1]))
    /\ UNCHANGED <<tab_network_events_enabled, tab_callbacks, resource_types, callback_ids,
                   network_was_enabled, pending, pending_keys, entries, body_tasks,
                   data_received_sizes, phase, wall_clock, delivered, fetched, hist,
                   pure_in, capture_vars, finder_vars, connection>>

NextTimings == apply_build_entry_timings

SpecTimings == InitTimings /\ [][NextTimings]_vars

----------------------------------------------------------------------------
(* HarCapture: the sorted views of the recorder's entries.  The recorder       *)
(* appends entries in the order they are completed; the capture is read, turned *)
(* into a HAR dict and saved at any point, and the caller is free to change the *)
(* list it was handed.                                                         *)

\* the wallTimes of the requests the entries are of
WallTimes == {1, 2, 3}

\* _wall_time_to_iso, as the characters in which the strings of these wallTimes
\* differ: the two digits of the seconds, the first wallTime falling on second 9
wall_time_to_iso(wall_time) == <<(8 + wall_time) \div 10, (8 + wall_time) % 10>>

\* a < b for strings, character by character
RECURSIVE str_less(_, _)
str_less(a, b) ==
    IF b = <<>> THEN FALSE
    ELSE IF a = <<>> THEN TRUE
    ELSE IF Head(a) # Head(b) THEN Head(a) < Head(b)
    ELSE str_less(Tail(a), Tail(b))

\* the key of the sort: e['startedDateTime'], an ISO 8601 string
started_key(e) == wall_time_to_iso(e.startedDateTime)

\* a faulty variant: the list is copied as it is
copied_as_is(list) == list

\* sorted(list, key=lambda e: e['startedDateTime']): a new list, equal keys in
\* their order in the list
RECURSIVE sorted_by_started(_)
sorted_by_started(list) ==
    IF list = <<>> THEN <<>>
    ELSE LET e == list[Len(list)]
             front == sorted_by_started(SubSeq(list, 1, Len(list) - 1))
             n == Cardinality({i \in DOMAIN front :
                                  ~str_less(started_key(e), started_key(front[i]))})
         IN SubSeq(front, 1, n) \o <<e>> \o SubSeq(front, n + 1, Len(front))

\* the list a caller holds: its items, and whether it is the recorder's own list
\* object or a new one
NewList(items) == [items |-> items, is_recorder_list |-> FALSE]

\* HarCapture.to_dict()
to_dict(recorder_entries) ==
    [version |-> "1.2", pages |-> <<>>, entries |-> NewList(sorted_by_started(recorder_entries))]

InitCapture ==
    /\ tab_network_events_enabled = FALSE
    /\ tab_callbacks = {}
    /\ resource_types = None
    /\ callback_ids = <<>>
    /\ network_was_enabled = FALSE
    /\ pending = EmptyDict
    /\ pending_keys = <<>>
    /\ entries = <<>>
    /\ body_tasks = <<>>
    /\ data_received_sizes = EmptyDict
    /\ phase = "recording"
    /\ wall_clock = 0
    /\ delivered = 0
    /\ fetched = {}
    /\ hist = [requests |-> <<>>, received |-> [r \in RequestIds |-> 0],
               resource_types_arg |-> None]
    /\ pure_in = None
    /\ pure_out = None
    /\ CaptureIdle
    /\ FinderIdle
    /\ ConnectionIdle

recorder_rest == <<tab_network_events_enabled, tab_callbacks, resource_types, callback_ids,
                   network_was_enabled, pending, pending_keys, body_tasks,
                   data_received_sizes, phase, wall_clock, delivered, fetched, hist,
                   pure_in, pure_out, finder_vars, connection>>

\* the recorder completes the entry of the request sent at wall_time
entry_completed(wall_time) ==
    /\ Len(entries) < MaxEntries
    /\ entries' = Append(entries, build_entry(NewPending(Url(wall_time), wall_time)))
    /\ UNCHANGED <<recorder_rest, capture_vars>>

\* HarCapture.entries
capture_entries ==
    /\ returned' = Some(NewList(sorted_by_started(entries)))
    /\ UNCHANGED <<recorder_rest, entries, saved>>

\* HarCapture.to_dict(): the caller is handed the dict, the entries list in it
capture_to_dict ==
    /\ returned' = Some(to_dict(entries).entries)
    /\ UNCHANGED <<recorder_rest, entries, saved>>

\* HarCapture.save(): json.dump keeps the order of the list
capture_save ==
    /\ saved' = Some([to_dict(entries) EXCEPT !.entries = @.items])
    /\ UNCHANGED <<recorder_rest, entries, returned>>

\* the caller takes the first item off the list it was handed
caller_pops_first ==
    /\ returned # None
    /\ returned[1].items # <<>>
    /\ returned' = Some([returned[1] EXCEPT !.items = Tail(@)])
    /\ IF returned[1].is_recorder_list
       THEN entries' = Tail(entries)
       ELSE UNCHANGED entries
    /\ UNCHANGED <<recorder_rest, saved>>

EntryCompleted == \E wall_time \in WallTimes : entry_completed(wall_time)

NextCapture ==
    \/ EntryCompleted
    \/ capture_entries
    \/ capture_to_dict
    \/ capture_save
    \/ caller_pops_first

SpecCapture == InitCapture /\ [][NextCapture]_vars

----------------------------------------------------------------------------
(* Session routing: _resolve_routing and _execute_command of a context (a tab, *)
(* an element, an iframe element, a shadow root).  A context has its own       *)
(* connection handler, may carry an inherited IFrameContext, whose session     *)
(* handler and session id may be unset, and may have the routing fields of an  *)
(* iframe boundary.                                                            *)

\* the context's own connection handler; the other one is browser-level
OwnHandler == "tab"

IFrameContexts ==
    {[session_handler |-> None, session_id |-> None],
     [session_handler |-> Some("browser"), session_id |-> Some("S1")]}

\* the routing fields as _apply_iframe_context_to_element sets them: a handler,
\* and the session id of the context the iframe was found in, if it has one
RoutingFields ==
    {[routing_session_handler |-> None, routing_session_id |-> None],
     [routing_session_handler |-> Some("tab"), routing_session_id |-> None],
     [routing_session_handler |-> Some("browser"), routing_session_id |-> Some("S2")]}

Contexts ==
    {[connection_handler |-> OwnHandler, iframe_context |-> ic,
      routing_session_handler |-> rf.routing_session_handler,
      routing_session_id |-> rf.routing_session_id] :
        ic \in {None} \cup {Some(c) : c \in IFrameContexts}, rf \in RoutingFields}

\* a command before it is sent: a fresh one, or one that was sent before and
\* still has the sessionId it was given then
Commands ==
    {[method |-> method, sessionId |-> session_id] :
        method \in {"Runtime.evaluate", "DOM.describeNode"},
        session_id \in {None, Some("S2")}}

\* a faulty variant: the routing fields are looked at before the inherited context
resolve_routing_boundary_first(context) ==
    IF context.routing_session_handler # None
    THEN [handler |-> context.routing_session_handler[1],
          session_id |-> context.routing_session_id]
    ELSE IF context.iframe_context # None /\ context.iframe_context[1].session_handler # None
    THEN [handler |-> context.iframe_context[1].session_handler[1],
          session_id |-> context.iframe_context[1].session_id]
    ELSE [handler |-> context.connection_handler, session_id |-> None]

\* _resolve_routing: the handler and the session id (None for none)
resolve_routing(context) ==
    IF context.iframe_context # None /\ context.iframe_context[1].session_handler # None
    THEN [handler |-> context.iframe_context[1].session_handler[1],
          session_id |-> context.iframe_context[1].session_id]
    ELSE IF context.routing_session_handler # None
    THEN [handler |-> context.routing_session_handler[1],
          session_id |-> context.routing_session_id]
    ELSE [handler |-> context.connection_handler, session_id |-> None]

\* a faulty variant: the command goes out as it came
stamped_never(command, session_id) == command

\* if session_id: command['sessionId'] = session_id
stamped(command, session_id) ==
    IF session_id # None THEN [command EXCEPT !.sessionId = session_id] ELSE command

\* a faulty variant: a routing that was resolved before is used again
transmission_cached(context, command) ==
    LET routing == IF pure_out # None THEN pure_out[1] ELSE resolve_routing(context)
    IN [handler |-> routing.handler, command |-> stamped(command, routing.session_id)]

\* _execute_command up to handler.execute_command: what is handed to which handler
transmission(context, command) ==
    LET routing == resolve_routing(context)
    IN [handler |-> routing.handler, command |-> stamped(command, routing.session_id)]

InitRouting ==
    /\ tab_network_events_enabled = FALSE
    /\ tab_callbacks = {}
    /\ resource_types = None
    /\ callback_ids = <<>>
    /\ network_was_enabled = FALSE
    /\ pending = EmptyDict
    /\ pending_keys = <<>>
    /\ entries = <<>>
    /\ body_tasks = <<>>
    /\ data_received_sizes = EmptyDict
    /\ phase = "new"
    /\ wall_clock = 0
    /\ delivered = 0
    /\ fetched = {}
    /\ hist = [requests |-> <<>>, received |-> [r \in RequestIds |-> 0],
               resource_types_arg |-> None]
    /\ pure_in \in {Some(context) : context \in Contexts}
    /\ pure_out = None
    /\ CaptureIdle
    /\ FinderIdle
    /\ ConnectionIdle

recorder_at_rest ==
    <<tab_network_events_enabled, tab_callbacks, resource_types, callback_ids,
      network_was_enabled, pending, pending_keys, entries, body_tasks,
      data_received_sizes, phase, wall_clock, delivered, fetched, hist, capture_vars>>

\* the context resolves its routing
apply_resolve_routing ==
    /\ pure_out = None
    /\ pure_out' = Some(resolve_routing(pure_in[1]))
    /\ UNCHANGED <<recorder_at_rest, connection, pure_in, finder_vars>>

\* the context sends a command
execute_command(command) ==
    /\ Len(wire) < MaxCommands
    /\ wire' = Append(wire, transmission(pure_in[1], command))
    /\ UNCHANGED <<recorder_at_rest, connection, pure_in, pure_out, finder, clock>>

ExecuteCommand == \E command \in Commands : execute_command(command)

NextRouting ==
    \/ apply_resolve_routing
    \/ ExecuteCommand

SpecRouting == InitRouting /\ [][NextRouting]_vars

\* A context's routing is attached after the context was made: an IFrameContext
\* is assigned to an element or a shadow root (context._iframe_context = ...),
\* or the routing fields of an iframe element are set.
set_iframe_context(iframe_context) ==
    /\ pure_in[1].iframe_context # Some(iframe_context)
    /\ pure_in' = Some([pure_in[1] EXCEPT !.iframe_context = Some(iframe_context)])
    /\ UNCHANGED <<recorder_at_rest, connection, pure_out, finder_vars>>

set_routing_fields(fields) ==
    /\ fields.routing_session_handler # None
    /\ pure_in' = Some([pure_in[1] EXCEPT
                           !.routing_session_handler = fields.routing_session_handler,
                           !.routing_session_id = fields.routing_session_id])
    /\ pure_in' # pure_in
    /\ UNCHANGED <<recorder_at_rest, connection, pure_out, finder_vars>>

NextAttach ==
    \/ apply_resolve_routing
    \/ ExecuteCommand
    \/ \E iframe_context \in IFrameContexts : set_iframe_context(iframe_context)
    \/ \E fields \in RoutingFields : set_routing_fields(fields)

SpecAttach == InitRouting /\ [][NextAttach]_vars

----------------------------------------------------------------------------
(* Finding elements: find_or_wait_element, with its polling loop, and the walk *)
(* across iframes of _find_across_iframes.  One call is followed from its      *)
(* start to its return or its exception.  What each search finds is the        *)
(* browser's: any outcome at any attempt.  The loop's clock counts polling     *)
(* intervals; a search takes none or one, a sleep of 0.5 s one or two.         *)

TicksPerSecond == 2
StepTicks == {0, 1}
SleepTicks == {1, 2}

\* Python values a find call deals in
NoneValue == [type |-> "None"]
Element(segment, context, is_iframe) ==
    [type |-> "element", segment |-> segment, context |-> context, is_iframe |-> is_iframe]
List(items) == [type |-> "list", items |-> items]
\* bool(value)
Truthy(value) ==
    \/ value.type = "element"
    \/ value.type = "list" /\ value.items # <<>>

\* what the browser answers to one search: whether the response has an
\* objectId, and for a single element whether it is an iframe, for all matches
\* how many of them could be described
ElementOutcomes ==
    {[all |-> FALSE, objectId |-> FALSE, is_iframe |-> FALSE, count |-> 0]}
    \cup {[all |-> FALSE, objectId |-> TRUE, is_iframe |-> b, count |-> 1] : b \in BOOLEAN}
ElementsOutcomes ==
    {[all |-> TRUE, objectId |-> FALSE, is_iframe |-> FALSE, count |-> 0]}
    \cup {[all |-> TRUE, objectId |-> TRUE, is_iframe |-> FALSE, count |-> k] : k \in 0..MaxFound}
SearchOutcomes == ElementOutcomes \cup ElementsOutcomes

\* _find_element in a context, for the segment: a value, or ElementNotFound
find_element(segment, context, outcome, raise_exc) ==
    IF ~outcome.objectId
    THEN IF raise_exc THEN Raised("ElementNotFound") ELSE Returned(NoneValue)
    ELSE Returned(Element(segment, context, outcome.is_iframe))

\* _find_elements in a context, for the segment
find_elements(segment, context, outcome, raise_exc) ==
    IF ~outcome.objectId
    THEN IF raise_exc THEN Raised("ElementNotFound") ELSE Returned(List(<<>>))
    ELSE Returned(List([k \in 1..outcome.count |-> Element(segment, context, FALSE)]))

\* the call ends
Done(f, outcome) == [f EXCEPT !.pc = "done", !.outcome = Some(outcome)]

\* time() - start_time > timeout
TimedOut(f, now) == now - f.start_time > f.timeout * TicksPerSecond

\* [] if find_all else None
NotFoundValue(f) == IF f.find_all THEN List(<<>>) ELSE NoneValue

\* a faulty variant: a walk that fails is reported as ElementNotFound also at the
\* end of a wait
across_after_attempt_not_found(f, result, now) ==
    IF result # NoneValue /\ result # List(<<>>) THEN Done(f, Returned(result))
    ELSE IF f.timeout = 0 \/ TimedOut(f, now)
    THEN Done(f, IF f.raise_exc THEN Raised("ElementNotFound")
                 ELSE Returned(NotFoundValue(f)))
    ELSE [f EXCEPT !.pc = "sleeping"]

\* the loop of _find_across_iframes from the result of an attempt to its sleep
across_after_attempt(f, result, now) ==
    IF result # NoneValue /\ result # List(<<>>) THEN Done(f, Returned(result))
    ELSE IF f.timeout = 0
    THEN Done(f, IF f.raise_exc THEN Raised("ElementNotFound")
                 ELSE Returned(NotFoundValue(f)))
    ELSE IF TimedOut(f, now)
    THEN Done(f, IF f.raise_exc THEN Raised("WaitElementTimeout")
                 ELSE Returned(NotFoundValue(f)))
    ELSE [f EXCEPT !.pc = "sleeping"]

\* a faulty variant: an element that is no iframe is handed back from where the
\* walk stopped
walk_segment_partial(f, outcome) ==
    LET found == find_element(f.i, f.context, outcome, FALSE).value IN
    IF f.i = f.segments
    THEN [over |-> TRUE, result |-> found, f |-> f]
    ELSE IF found = NoneValue THEN [over |-> TRUE, result |-> NoneValue, f |-> f]
    ELSE IF ~found.is_iframe THEN [over |-> TRUE, result |-> found, f |-> f]
    ELSE [over |-> FALSE, result |-> NoneValue,
          f |-> [f EXCEPT !.context = Append(@, f.i), !.i = @ + 1]]

\* one turn of the loop of _attempt_find_across_iframes, from the answer to the
\* segment's search: the attempt is over with a result, or the walk goes on in
\* the iframe found
walk_segment(f, outcome) ==
    IF f.i = f.segments
    THEN [over |-> TRUE,
          result |-> IF f.find_all
                     THEN LET result == find_elements(f.i, f.context, outcome, FALSE).value
                          IN IF Truthy(result) THEN result ELSE List(<<>>)
                     ELSE find_element(f.i, f.context, outcome, FALSE).value,
          f |-> f]
    ELSE LET element == find_element(f.i, f.context, outcome, FALSE).value IN
         IF ~Truthy(element) \/ ~element.is_iframe
         THEN [over |-> TRUE, result |-> NoneValue, f |-> f]
         ELSE [over |-> FALSE, result |-> NoneValue,
               f |-> [f EXCEPT !.context = Append(@, f.i), !.i = @ + 1]]

\* find_method(by, value, raise_exc=...)
find_method(f, outcome, raise_exc) ==
    IF f.find_all THEN find_elements(1, <<>>, outcome, raise_exc)
    ELSE find_element(1, <<>>, outcome, raise_exc)

\* a faulty variant: a wait for all matches that times out returns []
poll_after_attempt_empty_list(f, element, now) ==
    IF Truthy(element) THEN Done(f, Returned(element))
    ELSE IF TimedOut(f, now)
    THEN Done(f, IF f.raise_exc THEN Raised("WaitElementTimeout")
                 ELSE Returned(NotFoundValue(f)))
    ELSE [f EXCEPT !.pc = "sleeping"]

\* the loop of find_or_wait_element from the result of an attempt to its sleep
poll_after_attempt(f, element, now) ==
    IF Truthy(element) THEN Done(f, Returned(element))
    ELSE IF TimedOut(f, now)
    THEN Done(f, IF f.raise_exc THEN Raised("WaitElementTimeout") ELSE Returned(NoneValue))
    ELSE [f EXCEPT !.pc = "sleeping"]

\* the search that comes next is of the kind the outcome is of
Asked(f, outcome) == outcome.all = (f.find_all /\ f.i = f.segments)

InitFinder ==
    /\ tab_network_events_enabled = FALSE
    /\ tab_callbacks = {}
    /\ resource_types = None
    /\ callback_ids = <<>>
    /\ network_was_enabled = FALSE
    /\ pending = EmptyDict
    /\ pending_keys = <<>>
    /\ entries = <<>>
    /\ body_tasks = <<>>
    /\ data_received_sizes = EmptyDict
    /\ phase = "new"
    /\ wall_clock = 0
    /\ delivered = 0
    /\ fetched = {}
    /\ hist = [requests |-> <<>>, received |-> [r \in RequestIds |-> 0],
               resource_types_arg |-> None]
    /\ pure_in = None
    /\ pure_out = None
    /\ CaptureIdle
    /\ FinderIdle
    /\ ConnectionIdle

\* a call of find_or_wait_element at its first search
Called(segments, timeout, find_all, raise_exc) ==
    [segments |-> segments, timeout |-> timeout, find_all |-> find_all,
     raise_exc |-> raise_exc, start_time |-> clock, pc |-> "searching",
     i |-> 1, context |-> <<>>, attempts |-> 0, found |-> None, outcome |-> None]

\* find_or_wait_element is called with a selector of so many segments: up to
\* its first search
find_or_wait_element(segments, timeout, find_all, raise_exc) ==
    /\ finder = None
    /\ finder' = Some(Called(segments, timeout, find_all, raise_exc))
    /\ UNCHANGED <<recorder_at_rest, connection, pure_in, pure_out, wire, clock>>

\* a search of a walk across iframes is answered
across_search_answered(outcome, ticks) ==
    /\ finder # None
    /\ LET f == [finder[1] EXCEPT !.found = Some(outcome)]
           walk == walk_segment(f, outcome)
       IN /\ f.pc = "searching"
          /\ f.segments > 1
          /\ Asked(f, outcome)
          /\ clock' = clock + ticks
          /\ finder' = Some(IF walk.over
                             THEN across_after_attempt([f EXCEPT !.attempts = @ + 1],
                                                       walk.result, clock')
                             ELSE walk.f)
    /\ UNCHANGED <<recorder_at_rest, connection, pure_in, pure_out, wire>>

\* the one search of a call without timeout is answered
single_search_answered(outcome, ticks) ==
    /\ finder # None
    /\ LET f == [finder[1] EXCEPT !.found = Some(outcome)] IN
          /\ f.pc = "searching"
          /\ f.segments = 1
          /\ f.timeout = 0
          /\ Asked(f, outcome)
          /\ clock' = clock + ticks
          /\ finder' = Some(Done([f EXCEPT !.attempts = @ + 1],
                                  find_method(f, outcome, f.raise_exc)))
    /\ UNCHANGED <<recorder_at_rest, connection, pure_in, pure_out, wire>>

\* a search of the polling loop is answered
poll_search_answered(outcome, ticks) ==
    /\ finder # None
    /\ LET f == [finder[1] EXCEPT !.found = Some(outcome)] IN
          /\ f.pc = "searching"
          /\ f.segments = 1
          /\ f.timeout > 0
          /\ Asked(f, outcome)
          /\ clock' = clock + ticks
          /\ finder' = Some(poll_after_attempt([f EXCEPT !.attempts = @ + 1],
                                                find_method(f, outcome, FALSE).value, clock'))
    /\ UNCHANGED <<recorder_at_rest, connection, pure_in, pure_out, wire>>

\* asyncio.sleep(0.5) is over: the next attempt starts, a walk from its first segment
sleep_over(ticks) ==
    /\ finder # None
    /\ finder[1].pc = "sleeping"
    /\ clock' = clock + ticks
    /\ finder' = Some([finder[1] EXCEPT !.pc = "searching", !.i = 1, !.context = <<>>])
    /\ UNCHANGED <<recorder_at_rest, connection, pure_in, pure_out, wire>>

FindOrWaitElement ==
    \E segments \in 1..MaxSegments, timeout \in 0..MaxTimeout, find_all \in BOOLEAN,
       raise_exc \in BOOLEAN :
        find_or_wait_element(segments, timeout, find_all, raise_exc)
AcrossSearchAnswered ==
    \E outcome \in SearchOutcomes, ticks \in StepTicks : across_search_answered(outcome, ticks)
SingleSearchAnswered ==
    \E outcome \in SearchOutcomes, ticks \in StepTicks : single_search_answered(outcome, ticks)
PollSearchAnswered ==
    \E outcome \in SearchOutcomes, ticks \in StepTicks : poll_search_answered(outcome, ticks)
SleepOver == \E ticks \in SleepTicks : sleep_over(ticks)

\* the steps of a call under way
FinderRuns ==
    \/ AcrossSearchAnswered
    \/ SingleSearchAnswered
    \/ PollSearchAnswered
    \/ SleepOver

NextFinder ==
    \/ FindOrWaitElement
    \/ AcrossSearchAnswered
    \/ SingleSearchAnswered
    \/ PollSearchAnswered
    \/ SleepOver

SpecFinder == InitFinder /\ [][NextFinder]_vars

\* every command is answered or times out, and every sleep ends
SpecFinderLive == InitFinder /\ [][NextFinder]_vars /\ WF_vars(FinderRuns)

----------------------------------------------------------------------------
(* The tab's connection: the command correlator of execute_command and the    *)
(* event dispatcher with its callback registry, with Tab.on in front of the   *)
(* registry.  The browser answers the commands it was sent in any order, a    *)
(* command may time out, and the transport may close at any moment.           *)

\* the command of a caller
CommandOf(caller) == [method |-> "Runtime.evaluate", params |-> caller]

\* the browser's answer to the frame it received
ResponseTo(frame) == [id |-> frame.id, result |-> frame.command.params]

\* a faulty variant: the response goes to the command that waits longest
pending_slot_oldest(conn, response) ==
    IF conn.pending_commands = {} THEN None
    ELSE Some(CHOOSE id \in conn.pending_commands : \A other \in conn.pending_commands : id <= other)

\* the pending command a response belongs to: the one stored under its id
pending_slot(conn, response) ==
    IF response.id \in conn.pending_commands THEN Some(response.id) ELSE None

\* the callers, after the command with the id ended with the outcome
Ended(conn, id, outcome) ==
    [caller \in Callers |->
        IF conn.callers[caller] # None /\ conn.callers[caller][1].id = id
        THEN Some([conn.callers[caller][1] EXCEPT !.outcome = Some(outcome)])
        ELSE conn.callers[caller]]

\* a faulty variant: only the command sent last learns that the transport closed
rejected_latest_only(conn) == Ended(conn, conn.id, Raised("WebSocketConnectionClosed"))

\* the callers, after every outstanding command failed with the transport
rejected(conn) ==
    [caller \in Callers |->
        IF conn.callers[caller] # None /\ conn.callers[caller][1].outcome = None
        THEN Some([conn.callers[caller][1] EXCEPT
                      !.outcome = Some(Raised("WebSocketConnectionClosed"))])
        ELSE conn.callers[caller]]

InitConnection ==
    /\ tab_network_events_enabled = FALSE
    /\ tab_callbacks = {}
    /\ resource_types = None
    /\ callback_ids = <<>>
    /\ network_was_enabled = FALSE
    /\ pending = EmptyDict
    /\ pending_keys = <<>>
    /\ entries = <<>>
    /\ body_tasks = <<>>
    /\ data_received_sizes = EmptyDict
    /\ phase = "new"
    /\ wall_clock = 0
    /\ delivered = 0
    /\ fetched = {}
    /\ hist = [requests |-> <<>>, received |-> [r \in RequestIds |-> 0],
               resource_types_arg |-> None]
    /\ pure_in = None
    /\ pure_out = None
    /\ CaptureIdle
    /\ FinderIdle
    /\ ConnectionIdle

\* execute_command of the connection handler: the next id, the frame on the
\* socket, and the caller waits; on a closed transport the call fails at once
handler_execute_command(caller) ==
    /\ connection.callers[caller] = None
    /\ connection' =
         IF ~connection.open
         THEN [connection EXCEPT !.callers[caller] =
                  Some([id |-> 0, outcome |-> Some(Raised("WebSocketConnectionClosed"))])]
         ELSE LET id == connection.id + 1 IN
              [connection EXCEPT
                  !.id = id,
                  !.pending_commands = @ \cup {id},
                  !.sent = Append(@, [id |-> id, command |-> CommandOf(caller)]),
                  !.callers[caller] = Some([id |-> id, outcome |-> None])]
    /\ UNCHANGED <<recorder_at_rest, pure_in, pure_out, finder_vars>>

\* the browser's response to the i-th frame arrives
command_response_received(i) ==
    /\ connection.open
    /\ i \in 1..Len(connection.sent)
    /\ connection.sent[i].id \notin connection.answered
    /\ LET response == ResponseTo(connection.sent[i])
           slot == pending_slot(connection, response)
       IN connection' =
            [connection EXCEPT
                !.answered = @ \cup {response.id},
                !.pending_commands = IF slot = None THEN @ ELSE @ \ {slot[1]},
                !.callers = IF slot = None THEN @
                            ELSE Ended(connection, slot[1], Returned(response))]
    /\ UNCHANGED <<recorder_at_rest, pure_in, pure_out, finder_vars>>

\* no response arrived within the caller's timeout
command_timed_out(caller) ==
    /\ connection.callers[caller] # None
    /\ connection.callers[caller][1].id \in connection.pending_commands
    /\ LET id == connection.callers[caller][1].id IN
       connection' = [connection EXCEPT
                         !.pending_commands = @ \ {id},
                         !.callers = Ended(connection, id, Raised("CommandExecutionTimeout"))]
    /\ UNCHANGED <<recorder_at_rest, pure_in, pure_out, finder_vars>>

\* the transport closes
connection_closed ==
    /\ connection.open
    /\ connection' = [connection EXCEPT !.open = FALSE, !.pending_commands = {},
                                        !.callers = rejected(connection)]
    /\ UNCHANGED <<recorder_at_rest, pure_in, pure_out, finder_vars>>

NextCorrelator ==
    \/ \E caller \in Callers : handler_execute_command(caller)
    \/ \E i \in 1..MaxCallers : command_response_received(i)
    \/ \E caller \in Callers : command_timed_out(caller)
    \/ connection_closed

SpecCorrelator == InitConnection /\ [][NextCorrelator]_vars

\* the events the tab's callers listen to
EventNames == {"Page.fileChooserOpened", "Page.downloadProgress"}

\* a callback handed to Tab.on: whether it is a coroutine function, and how a
\* run of it ends, if it ends
Callbacks == [is_coroutine : BOOLEAN, ends : {"returned", "raised", "never"}]

\* a faulty variant: the wrapper awaits the callback
callback_wrapper_awaits(callback) == [state |-> callback.ends, task |-> None]

\* callback_wrapper(event): the callback's coroutine becomes a task, and the
\* wrapper returns
callback_wrapper(callback) == [state |-> "returned", task |-> Some(callback)]

\* a call of what Tab.on registered
call(function) ==
    IF function.wrapper THEN callback_wrapper(function.callback)
    ELSE [state |-> function.callback.ends, task |-> None]

\* register_callback of the connection handler
register_callback(conn, event_name, function, temporary) ==
    [conn EXCEPT
        !.callback_id = @ + 1,
        !.event_callbacks = Append(@, [id |-> conn.callback_id + 1, event |-> event_name,
                                       callback |-> function, temporary |-> temporary])]

\* a faulty variant: the registration is never temporary
tab_on_never_temporary(event_name, callback, temporary) ==
    /\ connection.callback_id < MaxCallbacks
    /\ connection' = [register_callback(connection, event_name,
                                        [wrapper |-> callback.is_coroutine,
                                         callback |-> callback], FALSE)
                      EXCEPT !.asked = Append(@, [event |-> event_name,
                                                  temporary |-> temporary])]
    /\ UNCHANGED <<recorder_at_rest, pure_in, pure_out, finder_vars>>

\* Tab.on: a coroutine function is registered behind callback_wrapper, any other
\* callback as it is; what the caller asked for is kept for the record
tab_on(event_name, callback, temporary) ==
    /\ connection.callback_id < MaxCallbacks
    /\ connection' = [register_callback(connection, event_name,
                                        [wrapper |-> callback.is_coroutine,
                                         callback |-> callback], temporary)
                      EXCEPT !.asked = Append(@, [event |-> event_name,
                                                  temporary |-> temporary])]
    /\ UNCHANGED <<recorder_at_rest, pure_in, pure_out, finder_vars>>

\* the registrations but those whose id is among gone
Except(registrations, gone) ==
    LET Kept(registration) == registration.id \notin gone IN SelectSeq(registrations, Kept)

\* Tab.remove_callback: removing an id that is not registered is a no-op
tab_remove_callback(callback_id) ==
    /\ connection' = [connection EXCEPT !.event_callbacks = Except(@, {callback_id})]
    /\ connection' # connection
    /\ UNCHANGED <<recorder_at_rest, pure_in, pure_out, finder_vars>>

\* a frame that is no response arrives: the registrations for its event name are
\* snapshot, each is scheduled, and the temporary ones are removed
event_received(event_name) ==
    /\ Len(connection.deliveries) < MaxDeliveries
    /\ LET Named(registration) == registration.event = event_name
           snapshot == SelectSeq(connection.event_callbacks, Named)
           fired == {snapshot[k].id : k \in {j \in DOMAIN snapshot : snapshot[j].temporary}}
       IN connection' =
            [connection EXCEPT
                !.deliveries = Append(@, event_name),
                !.invocations = @ \o [k \in 1..Len(snapshot) |->
                                        [callback_id |-> snapshot[k].id,
                                         function |-> snapshot[k].callback,
                                         delivery |-> Len(connection.deliveries) + 1,
                                         state |-> "scheduled"]],
                !.event_callbacks = Except(@, fired)]
    /\ UNCHANGED <<recorder_at_rest, pure_in, pure_out, finder_vars>>

\* the invocation scheduled first runs
invocation_runs(k) ==
    /\ k \in 1..Len(connection.invocations)
    /\ connection.invocations[k].state = "scheduled"
    /\ \A j \in 1..(k - 1) : connection.invocations[j].state # "scheduled"
    /\ LET invocation == connection.invocations[k]
           over == call(invocation.function)
       IN connection' =
            [connection EXCEPT
                !.invocations[k].state = over.state,
                !.tasks = IF over.task = None THEN @
                          ELSE Append(@, [callback_id |-> invocation.callback_id,
                                          delivery |-> invocation.delivery,
                                          callback |-> over.task[1],
                                          state |-> "pending"])]
    /\ UNCHANGED <<recorder_at_rest, pure_in, pure_out, finder_vars>>

\* the task of an async callback ends
task_ends(t) ==
    /\ t \in 1..Len(connection.tasks)
    /\ connection.tasks[t].state = "pending"
    /\ connection.tasks[t].callback.ends # "never"
    /\ connection' = [connection EXCEPT !.tasks[t].state = connection.tasks[t].callback.ends]
    /\ UNCHANGED <<recorder_at_rest, pure_in, pure_out, finder_vars>>

NextDispatcher ==
    \/ \E event_name \in EventNames, callback \in Callbacks, temporary \in BOOLEAN :
          tab_on(event_name, callback, temporary)
    \/ \E callback_id \in 1..MaxCallbacks : tab_remove_callback(callback_id)
    \/ \E event_name \in EventNames : event_received(event_name)
    \/ \E k \in 1..(MaxCallbacks * MaxDeliveries) : invocation_runs(k)
    \/ \E t \in 1..(MaxCallbacks * MaxDeliveries) : task_ends(t)

SpecDispatcher == InitConnection /\ [][NextDispatcher]_vars

----------------------------------------------------------------------------
(* find() and query(), in front of find_or_wait_element, on a context that   *)
(* may be CSS-only (a ShadowRoot).  The call's arguments are kept in pure_in. *)

\* what find() is asked to search by: id and text, each missing, empty or
\* given, and the names of the other attributes; class_name, name and
\* tag_name are tested as id is
Criteria ==
    [id : {None, Some(""), Some("main")}, text : {None, Some("Submit")},
     attributes : {{}, {"data-id"}}]

\* expressions query() is given, as their characters
Expressions == {<<"/", "/", "d", "i", "v">>, <<".", "/", "d", "i", "v">>,
                <<"#", "m", "a", "i", "n">>, <<".", "b", "t", "n">>, <<"d", "i", "v">>}

\* _get_expression_type: XPath when the expression starts with ./ or /, else CSS
get_expression_type(expression) ==
    IF \/ Len(expression) >= 1 /\ expression[1] = "/"
       \/ Len(expression) >= 2 /\ expression[1] = "." /\ expression[2] = "/"
    THEN "XPATH" ELSE "CSS_SELECTOR"

\* any([id, class_name, name, tag_name, text, *attributes.keys()])
any_criteria(criteria) ==
    \/ criteria.id # None /\ criteria.id[1] # ""
    \/ criteria.text # None /\ criteria.text[1] # ""
    \/ criteria.attributes # {}

\* a faulty variant: find() does not look at _css_only
find_anywhere(css_only, criteria, started) ==
    IF ~any_criteria(criteria) THEN Done(started, Raised("ValueError"))
    ELSE started

\* find() up to the first search of find_or_wait_element, or to its exception
find(css_only, criteria, started) ==
    IF css_only THEN Done(started, Raised("NotImplementedError"))
    ELSE IF ~any_criteria(criteria) THEN Done(started, Raised("ValueError"))
    ELSE started

\* query() up to the first search of find_or_wait_element, or to its exception
query(css_only, expression, started) ==
    IF css_only /\ get_expression_type(expression) = "XPATH"
    THEN Done(started, Raised("NotImplementedError"))
    ELSE started

\* find() is called on a context
find_called(css_only, criteria, segments, timeout, find_all, raise_exc) ==
    /\ finder = None
    /\ pure_in' = Some([method |-> "find", css_only |-> css_only, criteria |-> criteria])
    /\ finder' = Some(find(css_only, criteria, Called(segments, timeout, find_all, raise_exc)))
    /\ UNCHANGED <<recorder_at_rest, connection, pure_out, wire, clock>>

\* query() is called on a context
query_called(css_only, expression, segments, timeout, find_all, raise_exc) ==
    /\ finder = None
    /\ pure_in' = Some([method |-> "query", css_only |-> css_only,
                        expression |-> expression])
    /\ finder' = Some(query(css_only, expression,
                            Called(segments, timeout, find_all, raise_exc)))
    /\ UNCHANGED <<recorder_at_rest, connection, pure_out, wire, clock>>

NextFind ==
    \/ \E css_only \in BOOLEAN, criteria \in Criteria, segments \in 1..MaxSegments,
          timeout \in 0..MaxTimeout, find_all \in BOOLEAN, raise_exc \in BOOLEAN :
          find_called(css_only, criteria, segments, timeout, find_all, raise_exc)
    \/ \E css_only \in BOOLEAN, expression \in Expressions, segments \in 1..MaxSegments,
          timeout \in 0..MaxTimeout, find_all \in BOOLEAN, raise_exc \in BOOLEAN :
          query_called(css_only, expression, segments, timeout, find_all, raise_exc)
    \/ AcrossSearchAnswered
    \/ SingleSearchAnswered
    \/ PollSearchAnswered
    \/ SleepOver

SpecFind == InitFinder /\ [][NextFind]_vars

----------------------------------------------------------------------------
(* The routing state of the elements _find_element and _find_elements make.  *)
(* The finder is a tab, an element or an iframe element; an iframe element   *)
(* has the IFrameContext of its own document, another context may carry the  *)
(* IFrameContext it inherited.                                               *)

\* a recorder that was never started, with no capture, find call or connection
RecorderNew ==
    /\ tab_network_events_enabled = FALSE
    /\ tab_callbacks = {}
    /\ resource_types = None
    /\ callback_ids = <<>>
    /\ network_was_enabled = FALSE
    /\ pending = EmptyDict
    /\ pending_keys = <<>>
    /\ entries = <<>>
    /\ body_tasks = <<>>
    /\ data_received_sizes = EmptyDict
    /\ phase = "new"
    /\ wall_clock = 0
    /\ delivered = 0
    /\ fetched = {}
    /\ hist = [requests |-> <<>>, received |-> [r \in RequestIds |-> 0],
               resource_types_arg |-> None]
    /\ CaptureIdle
    /\ FinderIdle
    /\ ConnectionIdle

FrameContexts ==
    [frame_id : {"F1", "F2"}, session_handler : {None, Some("browser")},
     session_id : {None, Some("S1")}]

\* the context a search is made from: whether it is an iframe element, what
\* its iframe_context property gives then, and the _iframe_context it carries
Finders ==
    {[connection_handler |-> OwnHandler, is_iframe |-> is_iframe, own_context |-> own,
      iframe_context |-> inherited] :
        is_iframe \in BOOLEAN,
        own \in {None} \cup {Some(c) : c \in FrameContexts},
        inherited \in {None} \cup {Some(c) : c \in FrameContexts}}

\* create_web_element: a new element on the finder's connection handler, with
\* no IFrameContext and no routing fields
create_web_element(connection_handler, is_iframe) ==
    [connection_handler |-> connection_handler, is_iframe |-> is_iframe,
     iframe_context |-> None, routing_session_handler |-> None,
     routing_session_id |-> None, routing_parent_frame_id |-> None]

\* a faulty variant: the context is injected into iframe elements too
apply_iframe_context_to_all(finder_context, element, iframe_context) ==
    IF iframe_context = None THEN element
    ELSE IF element.is_iframe
    THEN [element EXCEPT
            !.iframe_context = iframe_context,
            !.routing_session_handler =
                IF iframe_context[1].session_handler # None
                THEN iframe_context[1].session_handler
                ELSE Some(finder_context.connection_handler),
            !.routing_session_id = iframe_context[1].session_id,
            !.routing_parent_frame_id = Some(iframe_context[1].frame_id)]
    ELSE [element EXCEPT !.iframe_context = iframe_context]

\* _apply_iframe_context_to_element
apply_iframe_context_to_element(finder_context, element, iframe_context) ==
    IF iframe_context = None THEN element
    ELSE IF element.is_iframe
    THEN [element EXCEPT
            !.routing_session_handler =
                IF iframe_context[1].session_handler # None
                THEN iframe_context[1].session_handler
                ELSE Some(finder_context.connection_handler),
            !.routing_session_id = iframe_context[1].session_id,
            !.routing_parent_frame_id = Some(iframe_context[1].frame_id)]
    ELSE [element EXCEPT !.iframe_context = iframe_context]

\* iframe_context or getattr(self, '_iframe_context', None), where
\* iframe_context is the finder's own when the finder is an iframe
inherited_context(finder_context) ==
    IF finder_context.is_iframe /\ finder_context.own_context # None
    THEN finder_context.own_context
    ELSE finder_context.iframe_context

\* the element _find_element or _find_elements makes for one object found
new_element(finder_context, is_iframe) ==
    apply_iframe_context_to_element(
        finder_context, create_web_element(finder_context.connection_handler, is_iframe),
        inherited_context(finder_context))

InitRoles ==
    /\ RecorderNew
    /\ pure_in \in {Some(finder_context) : finder_context \in Finders}
    /\ pure_out = None

\* _find_element found an object
find_element_found(is_iframe) ==
    /\ pure_out = None
    /\ pure_out' = Some(<<new_element(pure_in[1], is_iframe)>>)
    /\ UNCHANGED <<recorder_at_rest, connection, pure_in, finder_vars>>

\* _find_elements found some objects
find_elements_found(found) ==
    /\ pure_out = None
    /\ pure_out' = Some([k \in DOMAIN found |-> new_element(pure_in[1], found[k])])
    /\ UNCHANGED <<recorder_at_rest, connection, pure_in, finder_vars>>

NextRoles ==
    \/ \E is_iframe \in BOOLEAN : find_element_found(is_iframe)
    \/ \E n \in 0..MaxFound : \E found \in [1..n -> BOOLEAN] : find_elements_found(found)

SpecRoles == InitRoles /\ [][NextRoles]_vars

----------------------------------------------------------------------------
(* Shadow roots inside out-of-process iframes: Tab._collect_oopif_shadow_roots *)
(* asks the browser-level connection for the targets and, for each iframe      *)
(* target in turn, attaches to it, fetches its document and resolves the       *)
(* shadow roots found in it.  What the browser answers to each command is      *)
(* chosen when the command is made.                                            *)

BrowserHandler == "browser"
TargetTypes == {"iframe", "page"}
SessionIds == {"S1", "S2", "S3"}

\* how a command on the browser-level connection ends when it gives no result
CommandFailures == {"CommandExecutionTimeout", "WebSocketConnectionClosed"}

\* Target.attachToTarget: a session id, a response without one, or a failure
AttachOutcomes == SessionIds \cup {"no sessionId"} \cup CommandFailures

\* DOM.getDocument: a document, a response without a root, or a failure
DocumentOutcomes == {"document", "no root"} \cup CommandFailures

\* one shadow root found in a document: whether it has a backendNodeId, how
\* DOM.resolveNode ends for it, and how its host is resolved
\* (the host is asked for only when the shadow root was resolved)
ShadowEntries ==
    {[backendNodeId |-> FALSE, resolve |-> "not asked", host |-> "not asked"]}
    \cup {[backendNodeId |-> TRUE, resolve |-> failure, host |-> "not asked"] :
             failure \in {"KeyError"} \cup CommandFailures}
    \cup {[backendNodeId |-> TRUE, resolve |-> "objectId", host |-> host] :
             host \in {"no backendNodeId", "resolved", "KeyError"} \cup CommandFailures}

\* the entries _collect_shadow_roots_from_tree finds in one document
EntryLists == UNION {[1..n -> ShadowEntries] : n \in 0..MaxShadows}

\* a faulty variant: the context is made for the session attached first
oopif_iframe_context_first(target_id, browser_handler, session_id) ==
    [frame_id |-> target_id, session_handler |-> Some(browser_handler),
     session_id |-> Some(IF pure_out[1].attached # <<>> /\ pure_out[1].attached[1] \in SessionIds
                         THEN pure_out[1].attached[1] ELSE session_id)]

\* IFrameContext(frame_id=target_id, session_handler=browser_handler, session_id=session_id)
oopif_iframe_context(target_id, browser_handler, session_id) ==
    [frame_id |-> target_id, session_handler |-> Some(browser_handler),
     session_id |-> Some(session_id)]

\* _resolve_oopif_shadow_host: the host element, or None
resolve_oopif_shadow_host(shadow_entry) ==
    IF shadow_entry.host = "resolved"
    THEN Some([connection_handler |-> OwnHandler, iframe_context |-> None])
    ELSE None

\* _resolve_oopif_shadow_entry: the ShadowRoot, or None
resolve_oopif_shadow_entry(shadow_entry, iframe_context) ==
    IF ~shadow_entry.backendNodeId \/ shadow_entry.resolve # "objectId"
    THEN None
    ELSE LET host_element == resolve_oopif_shadow_host(shadow_entry)
         IN Some([connection_handler |-> OwnHandler,
                  host_element |-> IF host_element # None
                                   THEN Some([host_element[1] EXCEPT
                                                !.iframe_context = Some(iframe_context)])
                                   ELSE None,
                  iframe_context |-> IF host_element = None THEN Some(iframe_context)
                                     ELSE None])

\* the results of a list of optional results that are not None
Collected(optionals) ==
    LET IsSome(optional) == optional # None
        kept == SelectSeq(optionals, IsSome)
    IN [k \in DOMAIN kept |-> kept[k][1]]

\* _collect_shadow_roots_from_oopif_target
collect_shadow_roots_from_oopif_target(target_id, attach, document, found) ==
    IF attach \notin SessionIds THEN <<>>
    ELSE IF document \in CommandFailures THEN <<>>
    ELSE LET shadow_entries == IF document = "document" THEN found ELSE <<>>
             iframe_context == oopif_iframe_context(target_id, BrowserHandler, attach)
         IN Collected([k \in DOMAIN shadow_entries |->
                          resolve_oopif_shadow_entry(shadow_entries[k], iframe_context)])

InitOopif ==
    /\ RecorderNew
    /\ pure_in = None
    /\ pure_out = None

\* _collect_oopif_shadow_roots up to its loop: Target.getTargets is answered
get_targets_answered(target_types) ==
    /\ pure_out = None
    /\ pure_in' = Some(target_types)
    /\ pure_out' = Some([target |-> 1, attached |-> <<>>, documents |-> <<>>,
                         shadow_roots |-> <<>>])
    /\ UNCHANGED <<recorder_at_rest, connection, finder_vars>>

\* what became of the document of a target: not asked for without a session,
\* else the failure, or how many of its shadow roots can be resolved
DocumentOf(attach, document, found) ==
    IF attach \notin SessionIds THEN [outcome |-> "not asked", resolvable |-> 0]
    ELSE IF document # "document" THEN [outcome |-> document, resolvable |-> 0]
    ELSE [outcome |-> document,
          resolvable |-> Cardinality({k \in DOMAIN found :
                                        found[k].backendNodeId
                                        /\ found[k].resolve = "objectId"})]

\* the targets of type iframe, by their place in the answer
IframeTargets == {t \in DOMAIN pure_in[1] : pure_in[1][t] = "iframe"}

\* one turn of the loop: the next target is passed over if it is no iframe,
\* otherwise its shadow roots are collected and added to the list
next_target(attach, document, found) ==
    /\ pure_out # None
    /\ pure_out[1].target \in DOMAIN pure_in[1]
    /\ LET target_id == pure_out[1].target IN
       IF target_id \notin IframeTargets
       THEN pure_out' = Some([pure_out[1] EXCEPT !.target = @ + 1,
                                                 !.attached = Append(@, "not asked"),
                                                 !.documents = Append(@, [outcome |-> "not asked",
                                                                          resolvable |-> 0])])
       ELSE /\ attach \in SessionIds => attach \notin Range(pure_out[1].attached)
            /\ pure_out' =
                 Some([pure_out[1] EXCEPT
                         !.target = @ + 1,
                         !.attached = Append(@, attach),
                         !.documents = Append(@, DocumentOf(attach, document, found)),
                         !.shadow_roots = @ \o collect_shadow_roots_from_oopif_target(
                                                   target_id, attach, document, found)])
    /\ UNCHANGED <<recorder_at_rest, connection, pure_in, finder_vars>>

NextOopif ==
    \/ \E n \in 0..MaxTargets : \E target_types \in [1..n -> TargetTypes] :
          get_targets_answered(target_types)
    \/ \E attach \in AttachOutcomes, document \in DocumentOutcomes, found \in EntryLists :
          next_target(attach, document, found)

SpecOopif == InitOopif /\ [][NextOopif]_vars

----------------------------------------------------------------------------
(* Tab._wait_page_load around the navigation command of Tab.go_to: the       *)
(* context manager enables the Page events if they are off, registers the    *)
(* listener of the load event, lets the block send its command, waits for    *)
(* the listener to set page_loaded and cleans up.  The browser delivers load *)
(* events at any time while the Page events are on.                          *)

\* the id Tab.on gives the listener
LoadCallbackId == "on_loaded"

\* the context manager at its start, on a tab with the Page events on or off
WaitPageLoad(page_events_enabled) ==
    [pc |-> "start", page_events_enabled |-> page_events_enabled,
     cleanup_page_events |-> ~page_events_enabled, callbacks |-> {},
     page_loaded |-> FALSE, loads |-> 0, loads_after_sent |-> 0, outcome |-> None]

\* a faulty variant: the block is entered before the listener is registered
wait_page_load_enter_unregistered(w) == [w EXCEPT !.pc = "entered"]

\* callback_id = await self.on(event_name, on_loaded), then yield
wait_page_load_enter(w) ==
    [w EXCEPT !.pc = "entered", !.callbacks = @ \cup {LoadCallbackId}]

\* the finally clause: the listener is removed and the Page events are
\* disabled again if they were enabled here; a failure of the disable command
\* is suppressed
wait_page_load_exit(w, outcome, disabled) ==
    [w EXCEPT !.pc = "done", !.outcome = Some(outcome),
              !.callbacks = @ \ {LoadCallbackId},
              !.page_events_enabled = IF w.cleanup_page_events /\ disabled THEN FALSE ELSE @]

InitPageLoad ==
    /\ RecorderNew
    /\ pure_in \in {Some(page_events_enabled) : page_events_enabled \in BOOLEAN}
    /\ pure_out = Some(WaitPageLoad(pure_in[1]))

PageLoadStep(w) ==
    /\ pure_out' = Some(w)
    /\ UNCHANGED <<recorder_at_rest, connection, pure_in, finder_vars>>

\* the context manager is entered: the Page events are enabled if they were
\* off, which may fail before anything is registered, and the listener is
\* registered
wait_page_load_entered(enabled) ==
    LET w == pure_out[1] IN
    /\ w.pc = "start"
    /\ IF ~w.cleanup_page_events
       THEN PageLoadStep(wait_page_load_enter(w))
       ELSE IF enabled \in CommandFailures
       THEN PageLoadStep([w EXCEPT !.pc = "done", !.outcome = Some(Raised(enabled))])
       ELSE PageLoadStep(wait_page_load_enter([w EXCEPT !.page_events_enabled = TRUE]))

\* the block sends the navigation command
navigate_sent ==
    /\ pure_out[1].pc = "entered"
    /\ PageLoadStep([pure_out[1] EXCEPT !.pc = "sent"])

\* the navigation command is answered and the block ends, or the command
\* fails and the block raises
navigate_answered(answer, disabled) ==
    /\ pure_out[1].pc = "sent"
    /\ IF answer \in CommandFailures
       THEN PageLoadStep(wait_page_load_exit(pure_out[1], Raised(answer), disabled))
       ELSE PageLoadStep([pure_out[1] EXCEPT !.pc = "waiting"])

\* the browser delivers a load event; a registered listener sets page_loaded
load_event_fired ==
    LET w == pure_out[1] IN
    /\ w.pc \in {"entered", "sent", "waiting"}
    /\ w.page_events_enabled
    /\ w.loads < MaxLoads
    /\ PageLoadStep([w EXCEPT
                       !.loads = @ + 1,
                       !.loads_after_sent = IF w.pc = "entered" THEN @ ELSE @ + 1,
                       !.page_loaded = @ \/ LoadCallbackId \in w.callbacks])

\* asyncio.wait_for(page_loaded.wait(), timeout) returns
wait_returns(disabled) ==
    /\ pure_out[1].pc = "waiting"
    /\ pure_out[1].page_loaded
    /\ PageLoadStep(wait_page_load_exit(pure_out[1], Returned(NoneValue), disabled))

\* the timeout passes with page_loaded not set
wait_times_out(disabled) ==
    /\ pure_out[1].pc = "waiting"
    /\ ~pure_out[1].page_loaded
    /\ PageLoadStep(wait_page_load_exit(pure_out[1], Raised("PageLoadTimeout"), disabled))

\* the task is cancelled while it waits
wait_cancelled(disabled) ==
    /\ pure_out[1].pc = "waiting"
    /\ PageLoadStep(wait_page_load_exit(pure_out[1], Raised("CancelledError"), disabled))

NextPageLoad ==
    \/ \E enabled \in {"enabled"} \cup CommandFailures : wait_page_load_entered(enabled)
    \/ navigate_sent
    \/ \E answer \in {"navigated"} \cup CommandFailures, disabled \in BOOLEAN :
          navigate_answered(answer, disabled)
    \/ load_event_fired
    \/ \E disabled \in BOOLEAN : wait_returns(disabled)
    \/ \E disabled \in BOOLEAN : wait_times_out(disabled)
    \/ \E disabled \in BOOLEAN : wait_cancelled(disabled)

SpecPageLoad == InitPageLoad /\ [][NextPageLoad]_vars

----------------------------------------------------------------------------
(* Tab.expect_download: the context manager allows downloads into a          *)
(* directory (a temporary one unless keep_file_at is given), enables the     *)
(* Page events if they are off, registers a temporary listener for           *)
(* downloadWillBegin and a listener for downloadProgress, lets the block     *)
(* run, waits for the download to complete and cleans up.                    *)

Guids == {"g1", "g2", "g3"}
ProgressStates == {"inProgress", "completed", "canceled"}

\* the context manager at its start
ExpectDownload(page_events_enabled, keep_file_at) ==
    [pc |-> "start", page_events_enabled |-> page_events_enabled,
     page_events_was_enabled |-> page_events_enabled, cleanup_dir |-> ~keep_file_at,
     download_behavior |-> "default", download_dir |-> FALSE,
     callbacks |-> {}, guid |-> None, filePath |-> FALSE, done |-> FALSE,
     outcome |-> None]

\* up to the yield: downloads are allowed into the directory, the Page events
\* are enabled if they were off, the two listeners are registered
expect_download_enter(d) ==
    [d EXCEPT !.pc = "block", !.download_behavior = "allow", !.download_dir = TRUE,
              !.page_events_enabled = TRUE,
              !.callbacks = {"on_will_begin", "on_progress"}]

\* on_will_begin, registered as temporary
on_will_begin(d, guid) ==
    [d EXCEPT !.guid = Some(guid), !.callbacks = @ \ {"on_will_begin"}]

\* on_progress
on_progress(d, guid, state) ==
    IF (d.guid # None /\ Some(guid) # d.guid) \/ state # "completed"
    THEN d
    ELSE [d EXCEPT !.filePath = TRUE, !.done = TRUE]

\* _cleanup_download_context, in the finally clause
cleanup_download_context(d) ==
    LET reset == [d EXCEPT !.callbacks = @ \ {"on_progress"},
                           !.download_behavior = "default"]
    IN IF d.cleanup_dir /\ ~d.filePath
       THEN reset
       ELSE [reset EXCEPT
               !.download_dir = IF d.cleanup_dir THEN FALSE ELSE @,
               !.page_events_enabled = IF ~d.page_events_was_enabled THEN FALSE ELSE @]

\* the context manager is left
expect_download_exit(d, outcome) ==
    [cleanup_download_context(d) EXCEPT !.pc = "done", !.outcome = Some(outcome)]

InitDownload ==
    /\ RecorderNew
    /\ pure_in \in {Some([page_events_enabled |-> e, keep_file_at |-> k]) : e, k \in BOOLEAN}
    /\ pure_out = Some(ExpectDownload(pure_in[1].page_events_enabled, pure_in[1].keep_file_at))

DownloadStep(d) ==
    /\ pure_out' = Some(d)
    /\ UNCHANGED <<recorder_at_rest, connection, pure_in, finder_vars>>

expect_download_entered ==
    /\ pure_out[1].pc = "start"
    /\ DownloadStep(expect_download_enter(pure_out[1]))

\* the browser announces a download
download_will_begin(guid) ==
    /\ pure_out[1].pc \in {"block", "waiting"}
    /\ "on_will_begin" \in pure_out[1].callbacks
    /\ DownloadStep(on_will_begin(pure_out[1], guid))

\* the browser reports the progress of a download
download_progress(guid, state) ==
    /\ pure_out[1].pc \in {"block", "waiting"}
    /\ "on_progress" \in pure_out[1].callbacks
    /\ on_progress(pure_out[1], guid, state) # pure_out[1]
    /\ DownloadStep(on_progress(pure_out[1], guid, state))

\* the block ends, or raises
block_ends ==
    /\ pure_out[1].pc = "block"
    /\ DownloadStep([pure_out[1] EXCEPT !.pc = "waiting"])

block_raises ==
    /\ pure_out[1].pc = "block"
    /\ DownloadStep(expect_download_exit(pure_out[1], Raised("Exception")))

\* asyncio.wait_for(done, timeout) returns, or the timeout passes
download_done ==
    /\ pure_out[1].pc = "waiting"
    /\ pure_out[1].done
    /\ DownloadStep(expect_download_exit(pure_out[1], Returned(NoneValue)))

download_times_out ==
    /\ pure_out[1].pc = "waiting"
    /\ ~pure_out[1].done
    /\ DownloadStep(expect_download_exit(pure_out[1], Raised("DownloadTimeout")))

NextDownload ==
    \/ expect_download_entered
    \/ \E guid \in Guids : download_will_begin(guid)
    \/ \E guid \in Guids, state \in ProgressStates : download_progress(guid, state)
    \/ block_ends
    \/ block_raises
    \/ download_done
    \/ download_times_out

SpecDownload == InitDownload /\ [][NextDownload]_vars

----------------------------------------------------------------------------
(* Two HarRecorders on one tab: start() and stop() of each, as far as the    *)
(* Network domain and the callbacks go.  Each recorder looks at the tab's    *)
(* network_events_enabled when its start() begins and remembers in           *)
(* _network_was_enabled whether it enabled the domain itself.                *)

Recorders == {"A", "B"}

\* a recorder that was made and not started
NewRecorder == [pc |-> "new", network_was_enabled |-> FALSE, callbacks |-> FALSE, events |-> 0]

\* the tab, with its Network domain on or off, and its two recorders
TabWithRecorders(network_events_enabled) ==
    [network_events_enabled |-> network_events_enabled,
     recorders |-> [r \in Recorders |-> NewRecorder]]

InitOverlap ==
    /\ RecorderNew
    /\ pure_in \in {Some(network_events_enabled) : network_events_enabled \in BOOLEAN}
    /\ pure_out = Some(TabWithRecorders(pure_in[1]))

OverlapStep(tab) ==
    /\ pure_out' = Some(tab)
    /\ UNCHANGED <<recorder_at_rest, connection, pure_in, finder_vars>>

\* start() of recorder r up to its first await: Network.enable is sent if the
\* domain is off, otherwise the callbacks are registered and start() returns
recorder_start(r) ==
    LET tab == pure_out[1] IN
    /\ tab.recorders[r].pc = "new"
    /\ IF ~tab.network_events_enabled
       THEN OverlapStep([tab EXCEPT !.recorders[r].pc = "enabling"])
       ELSE OverlapStep([tab EXCEPT !.recorders[r].pc = "recording",
                                    !.recorders[r].callbacks = TRUE])

\* Network.enable is answered: the tab's flag and the recorder's are set, the
\* callbacks are registered and start() returns
recorder_start_enabled(r) ==
    LET tab == pure_out[1] IN
    /\ tab.recorders[r].pc = "enabling"
    /\ OverlapStep([tab EXCEPT !.network_events_enabled = TRUE,
                               !.recorders[r].network_was_enabled = TRUE,
                               !.recorders[r].pc = "recording",
                               !.recorders[r].callbacks = TRUE])

\* the tab delivers a Network event to the callbacks of recorder r
recorder_gets_event(r) ==
    LET tab == pure_out[1] IN
    /\ tab.network_events_enabled
    /\ tab.recorders[r].callbacks
    /\ tab.recorders[r].events < MaxEvents
    /\ OverlapStep([tab EXCEPT !.recorders[r].events = @ + 1])

\* stop() of recorder r up to Network.disable: the callbacks are removed, the
\* pending entries flushed, and Network.disable is sent if the recorder
\* enabled the domain itself
recorder_stop(r) ==
    LET tab == pure_out[1] IN
    /\ tab.recorders[r].pc = "recording"
    /\ OverlapStep([tab EXCEPT
                      !.recorders[r].callbacks = FALSE,
                      !.recorders[r].pc = IF tab.recorders[r].network_was_enabled
                                          THEN "disabling" ELSE "stopped"])

\* Network.disable is answered and stop() returns
recorder_stop_disabled(r) ==
    LET tab == pure_out[1] IN
    /\ tab.recorders[r].pc = "disabling"
    /\ OverlapStep([tab EXCEPT !.network_events_enabled = FALSE,
                               !.recorders[r].network_was_enabled = FALSE,
                               !.recorders[r].pc = "stopped"])

NextOverlap ==
    \/ \E r \in Recorders : recorder_start(r)
    \/ \E r \in Recorders : recorder_start_enabled(r)
    \/ \E r \in Recorders : recorder_gets_event(r)
    \/ \E r \in Recorders : recorder_stop(r)
    \/ \E r \in Recorders : recorder_stop_disabled(r)

SpecOverlap == InitOverlap /\ [][NextOverlap]_vars

----------------------------------------------------------------------------
(* SOCKS5Forwarder._handle_client for one client connection: the local       *)
(* handshake with the browser, the connection to the remote proxy, the       *)
(* handshake with it, the success reply, the relay in both directions and    *)
(* the finally clause.  One action per stretch between two awaits; what the  *)
(* peers send is chosen when it is read.                                     *)

SOCKS5_VERSION == 5
AUTH_NO_AUTH == 0
AUTH_USERNAME_PASSWORD == 2
AUTH_NO_ACCEPTABLE == 255
CMD_CONNECT == 1
ATYP_IPV4 == 1
ATYP_DOMAIN == 3
ATYP_IPV6 == 4
REPLY_SUCCESS == 0
REPLY_GENERAL_FAILURE == 1
REPLY_CONNECTION_REFUSED == 5
REPLY_COMMAND_NOT_SUPPORTED == 7
REPLY_ADDRESS_TYPE_NOT_SUPPORTED == 8

\* how _read_exact ends: the bytes, or a _HandshakeError for a connection
\* closed early or a timeout
Reads == {"read", "IncompleteReadError", "TimeoutError"}
Versions == {SOCKS5_VERSION, 4}
Commands5 == {CMD_CONNECT, 2}
AddressTypes == {ATYP_IPV4, ATYP_DOMAIN, 9}

\* the address types _read_raw_address reads
SupportedAddressTypes == {ATYP_IPV4, ATYP_DOMAIN, ATYP_IPV6}
RemoteMethods == {AUTH_NO_AUTH, AUTH_USERNAME_PASSWORD, AUTH_NO_ACCEPTABLE, 1}
AuthStatuses == {0, 1}
RemoteReplies == {REPLY_SUCCESS, REPLY_GENERAL_FAILURE, REPLY_CONNECTION_REFUSED}
OpenOutcomes == {"opened", "TimeoutError", "ConnectionRefusedError", "OSError"}
Directions == {"client->remote", "remote->client"}

\* the handler when the client has connected
HandleClient ==
    [pc |-> "greeting", client_sent |-> <<>>, remote_sent |-> <<>>,
     remote_writer |-> FALSE, client_closed |-> FALSE, remote_closed |-> FALSE,
     method |-> None, authenticated |-> FALSE, connected |-> FALSE,
     pipes |-> [d \in Directions |-> "idle"], outcome |-> None]

\* writer.write on the client's writer: a method selection, a reply, payload
client_write(h, kind, code) ==
    [h EXCEPT !.client_sent = Append(@, [kind |-> kind, code |-> code])]

\* writer.write on the remote proxy's writer
remote_write(h, what) == [h EXCEPT !.remote_sent = Append(@, what)]

\* the finally clause up to its first await: _close_writer(client_writer)
\* closes the writer and waits for it
handler_finally(h, outcome) ==
    [h EXCEPT !.pc = "closing client", !.client_closed = TRUE, !.outcome = Some(outcome)]

\* except _HandshakeError: the reply is sent if the error asks for one
handshake_error(h, reply_code, send_reply) ==
    handler_finally(IF send_reply THEN client_write(h, "reply", reply_code) ELSE h,
                    Returned(NoneValue))

\* a faulty variant: any answer to the authentication is taken for success
auth_accepted_any(status) == TRUE

\* if auth_resp[1] != 0x00: raise _HandshakeError
auth_accepted(status) == status = 0

InitSocks ==
    /\ RecorderNew
    /\ pure_in = None
    /\ pure_out = Some(HandleClient)

SocksStep(h) ==
    /\ pure_out' = Some(h)
    /\ UNCHANGED <<recorder_at_rest, connection, pure_in, finder_vars>>

\* _accept_local_handshake up to the request: the client's greeting
client_greeting(read, version, no_auth_offered) ==
    LET h == pure_out[1] IN
    /\ h.pc = "greeting"
    /\ IF read # "read" \/ version # SOCKS5_VERSION
       THEN SocksStep(handshake_error(h, REPLY_GENERAL_FAILURE, FALSE))
       ELSE IF ~no_auth_offered
       THEN SocksStep(handshake_error(client_write(h, "method", AUTH_NO_ACCEPTABLE),
                                      REPLY_GENERAL_FAILURE, FALSE))
       ELSE SocksStep([client_write(h, "method", AUTH_NO_AUTH) EXCEPT !.pc = "request"])

\* the rest of _accept_local_handshake: the client's request, with its
\* address and port
client_request(read, version, cmd, atyp) ==
    LET h == pure_out[1] IN
    /\ h.pc = "request"
    /\ IF read # "read" \/ version # SOCKS5_VERSION
       THEN SocksStep(handshake_error(h, REPLY_GENERAL_FAILURE, TRUE))
       ELSE IF cmd # CMD_CONNECT
       THEN SocksStep(handshake_error(h, REPLY_COMMAND_NOT_SUPPORTED, TRUE))
       ELSE IF atyp \notin SupportedAddressTypes
       THEN SocksStep(handshake_error(h, REPLY_ADDRESS_TYPE_NOT_SUPPORTED, TRUE))
       ELSE SocksStep([h EXCEPT !.pc = "connecting"])

\* asyncio.open_connection to the remote proxy ends; when it has opened, the
\* greeting of _remote_handshake is written
connection_opened(opened) ==
    LET h == pure_out[1] IN
    /\ h.pc = "connecting"
    /\ IF opened = "opened"
       THEN SocksStep([remote_write(h, "greeting") EXCEPT !.remote_writer = TRUE,
                                                          !.pc = "remote method"])
       ELSE SocksStep(handler_finally(
                client_write(h, "reply", IF opened = "ConnectionRefusedError"
                                         THEN REPLY_CONNECTION_REFUSED
                                         ELSE REPLY_GENERAL_FAILURE),
                Returned(NoneValue)))

\* the remote proxy's method selection is read
remote_method_selected(read, version, method) ==
    LET h == pure_out[1] IN
    /\ h.pc = "remote method"
    /\ IF read # "read" \/ version # SOCKS5_VERSION \/ method = AUTH_NO_ACCEPTABLE
       THEN SocksStep(handshake_error(h, REPLY_GENERAL_FAILURE, TRUE))
       ELSE IF method = AUTH_USERNAME_PASSWORD
       THEN SocksStep([remote_write(h, "auth") EXCEPT !.method = Some(method),
                                                     !.pc = "remote auth"])
       ELSE IF method = AUTH_NO_AUTH
       THEN SocksStep([remote_write(h, "connect") EXCEPT !.method = Some(method),
                                                        !.pc = "remote connect"])
       ELSE SocksStep(handshake_error(h, REPLY_GENERAL_FAILURE, TRUE))

\* the remote proxy's answer to the username and password is read
remote_auth_answered(read, status) ==
    LET h == pure_out[1] IN
    /\ h.pc = "remote auth"
    /\ IF read # "read" \/ ~auth_accepted(status)
       THEN SocksStep(handshake_error(h, REPLY_GENERAL_FAILURE, TRUE))
       ELSE SocksStep([remote_write(h, "connect") EXCEPT !.authenticated = status = 0,
                                                        !.pc = "remote connect"])

\* the header of the remote proxy's reply to CONNECT is read
remote_connect_answered(read, rep, atyp) ==
    LET h == pure_out[1] IN
    /\ h.pc = "remote connect"
    /\ IF read # "read"
       THEN SocksStep(handshake_error(h, REPLY_GENERAL_FAILURE, TRUE))
       ELSE IF rep # REPLY_SUCCESS
       THEN SocksStep(handshake_error(h, rep, TRUE))
       ELSE IF atyp \notin SupportedAddressTypes
       THEN SocksStep(handshake_error(h, REPLY_ADDRESS_TYPE_NOT_SUPPORTED, TRUE))
       ELSE SocksStep([h EXCEPT !.pc = "remote bound"])

\* the bound address and port of the reply are read; _remote_handshake
\* returns, the success reply is sent and the two pipes are started
remote_bound_read(read) ==
    LET h == pure_out[1] IN
    /\ h.pc = "remote bound"
    /\ IF read # "read"
       THEN SocksStep(handshake_error(h, REPLY_GENERAL_FAILURE, TRUE))
       ELSE SocksStep([client_write(h, "reply", REPLY_SUCCESS) EXCEPT
                          !.connected = TRUE, !.pc = "relaying",
                          !.pipes = [d \in Directions |-> "running"]])

\* _pipe forwards what it read
pipe_forwards(direction) ==
    LET h == pure_out[1] IN
    /\ h.pc = "relaying"
    /\ h.pipes[direction] = "running"
    /\ Len(h.client_sent) + Len(h.remote_sent) < MaxChunks + 5
    /\ IF direction = "client->remote"
       THEN SocksStep(remote_write(h, "payload"))
       ELSE SocksStep(client_write(h, "payload", 0))

\* _pipe reads EOF, or reading or writing fails: its finally clause closes
\* the writer it feeds
pipe_ends(direction) ==
    LET h == pure_out[1] IN
    /\ h.pc = "relaying"
    /\ h.pipes[direction] = "running"
    /\ IF direction = "client->remote"
       THEN SocksStep([h EXCEPT !.pipes[direction] = "done", !.remote_closed = TRUE])
       ELSE SocksStep([h EXCEPT !.pipes[direction] = "done", !.client_closed = TRUE])

\* asyncio.gather returns when both pipes are done
relay_over ==
    LET h == pure_out[1] IN
    /\ h.pc = "relaying"
    /\ \A d \in Directions : h.pipes[d] = "done"
    /\ SocksStep(handler_finally(h, Returned(NoneValue)))

\* the finally clause past its first await: the remote writer is closed and
\* waited for if the connection was opened
client_close_waited ==
    LET h == pure_out[1] IN
    /\ h.pc = "closing client"
    /\ IF h.remote_writer
       THEN SocksStep([h EXCEPT !.pc = "closing remote", !.remote_closed = TRUE])
       ELSE SocksStep([h EXCEPT !.pc = "finished"])

remote_close_waited ==
    /\ pure_out[1].pc = "closing remote"
    /\ SocksStep([pure_out[1] EXCEPT !.pc = "finished"])

\* the handler's task is cancelled at the await it is suspended at: in the try
\* body CancelledError is raised again and the finally clause begins (a
\* cancelled gather cancels the pipes, whose finally clauses close their
\* writers); at an await of the finally clause the handler ends there
handler_cancelled ==
    LET h == pure_out[1] IN
    /\ h.pc # "finished"
    /\ IF h.pc \in {"closing client", "closing remote"}
       THEN SocksStep([h EXCEPT !.pc = "finished", !.outcome = Some(Raised("CancelledError"))])
       ELSE IF h.pc = "relaying"
       THEN SocksStep(handler_finally(
                [h EXCEPT !.pipes = [d \in Directions |-> "done"], !.remote_closed = TRUE],
                Raised("CancelledError")))
       ELSE SocksStep(handler_finally(h, Raised("CancelledError")))

NextSocks ==
    \/ \E read \in Reads, version \in Versions, no_auth_offered \in BOOLEAN :
          client_greeting(read, version, no_auth_offered)
    \/ \E read \in Reads, version \in Versions, cmd \in Commands5, atyp \in AddressTypes :
          client_request(read, version, cmd, atyp)
    \/ \E opened \in OpenOutcomes : connection_opened(opened)
    \/ \E read \in Reads, version \in Versions, method \in RemoteMethods :
          remote_method_selected(read, version, method)
    \/ \E read \in Reads, status \in AuthStatuses : remote_auth_answered(read, status)
    \/ \E read \in Reads, rep \in RemoteReplies, atyp \in AddressTypes :
          remote_connect_answered(read, rep, atyp)
    \/ \E read \in Reads : remote_bound_read(read)
    \/ \E direction \in Directions : pipe_forwards(direction)
    \/ \E direction \in Directions : pipe_ends(direction)
    \/ relay_over
    \/ client_close_waited
    \/ remote_close_waited
    \/ handler_cancelled

SpecSocks == InitSocks /\ [][NextSocks]_vars

----------------------------------------------------------------------------
(* TempDirectoryManager: create_temp_dir and cleanup.  A tracked directory   *)
(* holds at most one file that resists deletion: the error its deletion      *)
(* raises, whether its path matches a known Chromium pattern, and how many   *)
(* deletion attempts fail before the lock is released.  shutil.rmtree calls  *)
(* the handler for the file it cannot unlink and for the directory it cannot *)
(* remove while the file is still in it.                                     *)

RetryTimes == 10         \* retry_process_file(..., retry_times=10)
GenericRetries == 5      \* for _ in range(5)
CleanupRetries == 10     \* for attempt in range(10)

\* PermissionError, OSError with winerror 32, any other OSError
DeletionErrors == {"PermissionError", "SharingViolation", "OSError"}

\* failing deletion attempts before the file can be deleted: released after
\* the first, after the generic retries, after every retry
LockChoices == {1, GenericRetries + 1, RetryTimes + 1}

\* checks of remaining.exists() that still see a directory whose removal
\* returned
LingerChoices == {0, 1, CleanupRetries + 1}

ResistingFiles == [known : BOOLEAN, error : DeletionErrors, locked : LockChoices]

TempDirs == [file : {None} \cup {Some(f) : f \in ResistingFiles}, lingers : LingerChoices]

TempDirectoryManager ==
    [_temp_dirs |-> <<>>, pc |-> "idle", i |-> 0, attempted |-> {}, removed |-> {},
     outcome |-> None]

\* func(path) is tried again up to `tries` times with PermissionError caught:
\* the file is deleted, the tries run out, or another error leaves the loop
retry_delete(file, tries) ==
    IF file.error = "PermissionError"
    THEN IF file.locked <= tries THEN "deleted" ELSE "PermissionError"
    ELSE IF file.locked <= 1 THEN "deleted" ELSE "OSError"

\* handle_cleanup_error for a file whose deletion by rmtree has failed: the
\* file is deleted by a retry, it is ignored, or an exception is raised
handle_cleanup_error(file) ==
    IF file.error \in {"PermissionError", "SharingViolation"}
    THEN IF file.known
         THEN IF retry_delete(file, RetryTimes) = "PermissionError"
              THEN "ignored"
              ELSE retry_delete(file, RetryTimes)
         ELSE IF retry_delete(file, GenericRetries) = "PermissionError"
              THEN file.error
              ELSE retry_delete(file, GenericRetries)
    ELSE "OSError"

\* shutil.rmtree(temp_dir.name, onerror=self.handle_cleanup_error): with the
\* file left in place os.rmdir fails with OSError, which the handler raises
rmtree(temp_dir) ==
    IF temp_dir.file = None
    THEN Returned(NoneValue)
    ELSE LET handled == handle_cleanup_error(temp_dir.file[1]) IN
         IF handled = "deleted" THEN Returned(NoneValue)
         ELSE IF handled = "ignored" THEN Raised("OSError")
         ELSE Raised(IF handled = "SharingViolation" THEN "OSError" ELSE handled)

InitCleanup ==
    /\ RecorderNew
    /\ pure_in = None
    /\ pure_out = Some(TempDirectoryManager)

CleanupStep(m) ==
    /\ pure_out' = Some(m)
    /\ UNCHANGED <<recorder_at_rest, connection, pure_in, finder_vars>>

\* the loop of cleanup moves on to the next tracked directory, or ends
cleanup_continue(m) ==
    IF m.i < Len(m._temp_dirs)
    THEN [m EXCEPT !.i = @ + 1, !.pc = "rmtree"]
    ELSE [m EXCEPT !.pc = "finished", !.outcome = Some(Returned(NoneValue))]

create_temp_dir(temp_dir) ==
    LET m == pure_out[1] IN
    /\ m.pc = "idle"
    /\ Len(m._temp_dirs) < MaxDirs
    /\ CleanupStep([m EXCEPT !._temp_dirs = Append(@, temp_dir)])

cleanup ==
    /\ pure_out[1].pc = "idle"
    /\ CleanupStep(cleanup_continue(pure_out[1]))

\* the first rmtree of a directory, outside any try, and the check of what
\* remains
cleanup_rmtree ==
    LET m == pure_out[1]
        temp_dir == m._temp_dirs[m.i]
        tried == [m EXCEPT !.attempted = @ \cup {m.i}] IN
    /\ m.pc = "rmtree"
    /\ IF rmtree(temp_dir).kind = "raised"
       THEN CleanupStep([tried EXCEPT !.pc = "finished", !.outcome = Some(rmtree(temp_dir))])
       ELSE IF temp_dir.lingers = 0
       THEN CleanupStep(cleanup_continue([tried EXCEPT !.removed = @ \cup {m.i}]))
       ELSE CleanupStep([tried EXCEPT !.pc = "retrying"])

\* the retry loop: rmtree again with every exception passed over, until the
\* directory is gone or the attempts run out
cleanup_retry ==
    LET m == pure_out[1]
        temp_dir == m._temp_dirs[m.i] IN
    /\ m.pc = "retrying"
    /\ IF temp_dir.lingers <= CleanupRetries
       THEN CleanupStep(cleanup_continue([m EXCEPT !.removed = @ \cup {m.i}]))
       ELSE CleanupStep(cleanup_continue(m))

NextCleanup ==
    \/ \E temp_dir \in TempDirs : create_temp_dir(temp_dir)
    \/ cleanup
    \/ cleanup_rmtree
    \/ cleanup_retry

SpecCleanup == InitCleanup /\ [][NextCleanup]_vars

----------------------------------------------------------------------------
(* Properties *)

\* the entries recorded for the request announced at wallTime w
EntriesOf(w) == {i \in DOMAIN entries : entries[i].startedDateTime = w}
Last(seq) == seq[Len(seq)]
\* the request's resource type is one the recorder was asked to record
PassedFilter(resource_type) ==
    \/ hist.resource_types_arg \in {None, Some({})}
    \/ resource_type \in hist.resource_types_arg[1]
\* the status a redirect response reports, 302 when it reports none
RedirectStatus(redirect_response) ==
    IF redirect_response[1].status = None THEN 302 ELSE redirect_response[1].status[1]
\* stop() goes from waiting (or from its start) past the flush
FlushStep ==
    /\ phase \in {"recording", "gathering"}
    /\ phase' \in {"disabling", "stopped"}

C2_StopFlush ==
    /\ [](phase \in {"disabling", "stopped"} => pending = EmptyDict /\ body_tasks = <<>>)
    /\ [][FlushStep =>
            /\ Len(entries') = Len(entries) + Cardinality(DOMAIN pending)
            /\ SubSeq(entries', 1, Len(entries)) = entries
            /\ \A request_id \in DOMAIN pending :
                  LET p == pending[request_id]
                      mine == {i \in DOMAIN entries' :
                                  entries'[i].startedDateTime = p.wall_time}
                  IN /\ Cardinality(mine) = 1
                     /\ \A i \in mine :
                           /\ i > Len(entries)
                           /\ entries'[i].url = p.url
                           /\ p = NewPending(p.url, p.wall_time)
                              => /\ entries'[i].response.status = 0
                                 /\ entries'[i].response.statusText = "(pending)"]_vars

\* C2 witness: stop() has returned and flushed a request that had only its
\* requestWillBeSent.
C2_Witness ==
    /\ phase = "stopped"
    /\ \E i \in DOMAIN entries :
          /\ entries[i].response.status = 0
          /\ entries[i].response.statusText = "(pending)"

\* C3 (as claimed): when stop() has returned there are as many entries as
\* requestWillBeSent events that passed the resource-type filter.
C3_NoSilentLoss ==
    phase = "stopped"
    => Len(entries) = Cardinality({w \in DOMAIN hist.requests :
                                      PassedFilter(hist.requests[w].resource_type)})


\* C4 (as claimed): loadingFinished for a pending request returns without
\* appending an entry and leaves one more task on _body_tasks; the flush finds
\* no pending request that had its loadingFinished; once stop() has returned no
\* entry is appended; and when stop() has returned every request that had a
\* loadingFinished while pending has an entry.
C4_FinishedRequestsRecorded ==
    /\ [][\A request_id \in RequestIds, encoded_data_length \in TransferSizes :
            (/\ on_loading_finished(request_id, encoded_data_length)
             /\ request_id \in DOMAIN pending)
            => /\ entries' = entries
               /\ Len(body_tasks') = Len(body_tasks) + 1
               /\ Last(body_tasks').request_id = request_id]_vars
    /\ [][FlushStep => \A request_id \in DOMAIN pending :
                          pending[request_id].transfer_size = None]_vars
    /\ [][phase = "stopped" => entries' = entries]_vars
    /\ [](phase = "stopped"
          => \A w \in DOMAIN hist.requests :
                hist.requests[w].loading_finished > 0 => EntriesOf(w) # {})

\* C5 (as claimed): loadingFailed for a pending request removes the pending
\* entry and appends one entry with status 0, or the extra-info status code if
\* one was received, and the error text; no body task and no body fetch is started.
C5_FailedAsClaimed ==
    [][\A request_id \in RequestIds, error_text \in ErrorTexts :
          (/\ on_loading_failed(request_id, error_text)
           /\ request_id \in DOMAIN pending)
          => /\ request_id \notin DOMAIN pending'
             /\ Len(entries') = Len(entries) + 1
             /\ SubSeq(entries', 1, Len(entries)) = entries
             /\ Last(entries').startedDateTime = pending[request_id].wall_time
             /\ Last(entries').response.status =
                   (IF pending[request_id].extra_status_code # None
                    THEN pending[request_id].extra_status_code[1] ELSE 0)
             /\ Last(entries').response.statusText = error_text
             /\ UNCHANGED <<body_tasks, fetched>>]_vars

\* C5 (amended): loadingFailed for a pending request removes the pending entry
\* and appends, inside the handler, exactly one entry whose status is the
\* extra-info status code if one was received, else the status of the
\* responseReceived if one was received, else 0, and whose statusText is the
\* response's if a responseReceived was received and the error text otherwise;
\* no body task and no body fetch is started.
C5_Failed ==
    [][\A request_id \in RequestIds, error_text \in ErrorTexts :
          (/\ on_loading_failed(request_id, error_text)
           /\ request_id \in DOMAIN pending)
          => LET p == pending[request_id] IN
             /\ request_id \notin DOMAIN pending'
             /\ Len(entries') = Len(entries) + 1
             /\ SubSeq(entries', 1, Len(entries)) = entries
             /\ Last(entries').startedDateTime = p.wall_time
             /\ Last(entries').response.status =
                   (IF p.extra_status_code # None THEN p.extra_status_code[1]
                    ELSE IF p.status # None THEN p.status[1] ELSE 0)
             /\ Last(entries').response.statusText =
                   (IF p.status_text # None THEN p.status_text[1] ELSE error_text)
             /\ UNCHANGED <<body_tasks, fetched>>]_vars

\* C5 witness: a request that had its responseReceived (status 200) and then
\* failed: it has its entry while the recorder is recording, and never had a
\* loadingFinished nor a redirect.
C5_Witness ==
    /\ phase = "recording"
    /\ \E i \in DOMAIN entries :
          /\ entries[i].response.status = 200
          /\ entries[i].response.statusText = "OK"
          /\ hist.requests[entries[i].startedDateTime].loading_finished = 0


\* C6: the response's bodySize is 0 if its status is 304; otherwise the
\* accumulated dataReceived total if that is positive; otherwise the decoded
\* content size if that is positive; otherwise -1.
C6_BodySizePrecedence ==
    pure_out # None
    => LET response == pure_out[1]
           total == IF pure_in[1].body_bytes = None THEN -1 ELSE pure_in[1].body_bytes[1]
       IN response.bodySize =
             (IF response.status = 304 THEN 0
              ELSE IF total > 0 THEN total
              ELSE IF response.content_size > 0 THEN response.content_size
              ELSE -1)

\* C6 witness: a 304 built from a pending dict with accumulated bytes and a
\* body: its bodySize is 0.
C6_Witness ==
    /\ pure_out # None
    /\ pure_out[1].status = 304
    /\ pure_in[1].body_bytes = Some(2)
    /\ pure_out[1].content_size > 0
    /\ pure_out[1].bodySize = 0


\* the request announced at wallTime w is the first the browser announced
\* under its request id
FirstOnId(w) ==
    \A v \in 1..(w - 1) : hist.requests[v].request_id # hist.requests[w].request_id

C8_ExtraStatusOverrides ==
    \A i \in DOMAIN entries :
        LET h == hist.requests[entries[i].startedDateTime] IN
        h.extra_status # None
        => /\ entries[i].response.status = h.extra_status[1]
           /\ h.extra_status[1] = 304 => entries[i].response.bodySize = 0

\* C8 witness: an entry with status 304 from the extra info and bodySize 0,
\* for a request whose responseReceived said 200 OK.
C8_Witness ==
    \E i \in DOMAIN entries :
        LET h == hist.requests[entries[i].startedDateTime] IN
        /\ h.extra_status = Some(304)
        /\ entries[i].response.status = 304
        /\ entries[i].response.statusText = "OK"
        /\ entries[i].response.bodySize = 0

\* C9: requestWillBeSentExtraInfo, responseReceived, responseReceivedExtraInfo,
\* loadingFinished and loadingFailed for a request id with no pending entry
\* leave the pending table, the entries, the body tasks and the body fetches
\* as they were.
C9_UnknownIdDropped ==
    [][\A request_id \in RequestIds :
          (/\ request_id \notin DOMAIN pending
           /\ \/ \E has_headers \in BOOLEAN : on_request_extra_info(request_id, has_headers)
              \/ \E response \in Responses : on_response_received(request_id, response)
              \/ \E status_code \in ExtraStatusCodes :
                    on_response_extra_info(request_id, status_code)
              \/ \E encoded_data_length \in TransferSizes :
                    on_loading_finished(request_id, encoded_data_length)
              \/ \E error_text \in ErrorTexts : on_loading_failed(request_id, error_text))
          => UNCHANGED <<pending, pending_keys, entries, body_tasks, fetched>>]_vars

\* C9 witness: events have been delivered, none of them a requestWillBeSent or
\* a dataReceived, and nothing is pending or recorded.
C9_Witness ==
    /\ delivered = MaxEvents
    /\ wall_clock = 0
    /\ data_received_sizes = EmptyDict
    /\ pending = EmptyDict
    /\ entries = <<>>

\* the request announced at wallTime w has a pending dict or an entry
Recorded(w) ==
    \/ EntriesOf(w) # {}
    \/ \E request_id \in DOMAIN pending : pending[request_id].wall_time = w
    \/ \E i \in DOMAIN body_tasks :
          body_tasks[i].pending # None /\ body_tasks[i].pending[1].wall_time = w

\* C10: a request whose resource type is not in the filter the recorder was
\* given never has a pending entry nor an entry; a recorder given None or an
\* empty list makes a pending entry for every requestWillBeSent.
C10_ResourceTypeFilter ==
    /\ [](\A w \in DOMAIN hist.requests :
             ~PassedFilter(hist.requests[w].resource_type) => ~Recorded(w))
    /\ [][\A request_id \in RequestIds, resource_type \in ResourceTypes,
             redirect_response \in RedirectResponses :
             (/\ on_request_will_be_sent(request_id, resource_type, redirect_response)
              /\ hist.resource_types_arg \in {None, Some({})})
             => /\ request_id \in DOMAIN pending'
                /\ pending'[request_id].wall_time = wall_clock']_vars

\* C10 witness: a recorder with a filter has stopped after a request outside the
\* filter and three more events, with no entry.
C10_Witness ==
    /\ phase = "stopped"
    /\ delivered = MaxEvents
    /\ wall_clock = 1
    /\ ~PassedFilter(hist.requests[1].resource_type)
    /\ entries = <<>>

\* an event carrying request_id is handled
EventFor(request_id) ==
    \/ \E resource_type \in ResourceTypes, redirect_response \in RedirectResponses :
          on_request_will_be_sent(request_id, resource_type, redirect_response)
    \/ \E has_headers \in BOOLEAN : on_request_extra_info(request_id, has_headers)
    \/ \E response \in Responses : on_response_received(request_id, response)
    \/ \E status_code \in ExtraStatusCodes : on_response_extra_info(request_id, status_code)
    \/ \E chunk_size \in ChunkSizes : on_data_received(request_id, chunk_size)
    \/ \E encoded_data_length \in TransferSizes :
          on_loading_finished(request_id, encoded_data_length)
    \/ \E error_text \in ErrorTexts : on_loading_failed(request_id, error_text)

\* the step leaves what the recorder holds for request id b as it was: its
\* pending dict, its dataReceived counter, its body tasks, and its entries
UntouchedBy(b) ==
    /\ (b \in DOMAIN pending') = (b \in DOMAIN pending)
    /\ b \in DOMAIN pending => pending'[b] = pending[b]
    /\ (b \in DOMAIN data_received_sizes') = (b \in DOMAIN data_received_sizes)
    /\ b \in DOMAIN data_received_sizes => data_received_sizes'[b] = data_received_sizes[b]
    /\ SelectSeq(body_tasks', LAMBDA t : t.request_id = b)
          = SelectSeq(body_tasks, LAMBDA t : t.request_id = b)
    /\ Len(entries') >= Len(entries)
    /\ SubSeq(entries', 1, Len(entries)) = entries
    /\ \A i \in (Len(entries) + 1)..Len(entries') :
          hist.requests[entries'[i].startedDateTime].request_id # b

\* every request id was announced once
OneLifecycleEach ==
    \A v, w \in DOMAIN hist.requests :
        v # w => hist.requests[v].request_id # hist.requests[w].request_id

\* the status the browser reported for the request announced at wallTime w
OwnStatus(w) ==
    LET h == hist.requests[w]
    IN IF h.extra_status # None THEN h.extra_status[1]
       ELSE IF h.response_status # None THEN h.response_status[1] ELSE 0

\* C11: an event carrying request id a leaves the pending dict, the
\* dataReceived counter, the body tasks and the entries of every other id as
\* they were; and when each id was announced once, each request that passed the
\* filter has at most one entry, exactly one when stop() has returned, and the
\* entry holds the request's own URL, the status the browser reported for it
\* and, if it had one loadingFinished and is no 304, the bytes sent for its id.
C11_Isolation ==
    /\ [][\A a \in RequestIds :
             EventFor(a) => \A b \in RequestIds \ {a} : UntouchedBy(b)]_vars
    /\ [](OneLifecycleEach
          => \A w \in DOMAIN hist.requests :
                LET h == hist.requests[w] IN
                /\ Cardinality(EntriesOf(w)) <= 1
                /\ (phase = "stopped" /\ PassedFilter(h.resource_type))
                   => Cardinality(EntriesOf(w)) = 1
                /\ \A i \in EntriesOf(w) :
                      /\ entries[i].url = Url(w)
                      /\ entries[i].response.status = OwnStatus(w)
                      /\ (/\ h.loading_finished = 1
                          /\ OwnStatus(w) # 304
                          /\ h.bytes_before_finished[1] > 0)
                         => entries[i].response.bodySize = h.bytes_before_finished[1])

\* C11 witness: two ids, each announced once, one told 304 by the extra info
\* and the other 200 by responseReceived; stop() has returned and each has its
\* entry with its own URL and status.
C11_Witness ==
    /\ phase = "stopped"
    /\ Len(hist.requests) = 2
    /\ OneLifecycleEach
    /\ Len(entries) = 2
    /\ \E i, j \in DOMAIN entries :
          /\ entries[i].url = Url(1) /\ entries[i].response.status = 304
          /\ entries[j].url = Url(2) /\ entries[j].response.status = 200

\* the sum of the phases that count for the entry's time, those of them that
\* are not negative
PhaseSum(timings) ==
    LET NonNegative(v) == IF v >= 0 THEN v ELSE 0
    IN NonNegative(timings.blocked) + NonNegative(timings.dns) + NonNegative(timings.connect)
       + NonNegative(timings.send) + NonNegative(timings.wait) + NonNegative(timings.receive)

\* the pending dict with another ssl phase, all else the same
WithSsl(p, ssl) ==
    IF p.timing = None THEN p
    ELSE [p EXCEPT !.timing = Some([p.timing[1] EXCEPT !.sslStart = ssl[1], !.sslEnd = ssl[2]])]

\* the entry's time is the same whatever the ssl phase is
SslPlaysNoPart ==
    \A ssl \in SslTimes :
        build_entry_timings(WithSsl(pure_in[1], ssl)).time = pure_out[1].time

\* C12 (as claimed): the entry's time equals the sum of the non-negative ones
\* of blocked, dns, connect, send, wait and receive, and does not change with
\* the ssl phase.
C12_TimeAsClaimed ==
    pure_out # None
    => /\ pure_out[1].time = PhaseSum(pure_out[1].timings)
       /\ SslPlaysNoPart

\* C12 (amended): the entry's time is the sum of the non-negative ones of
\* blocked, dns, connect, send, wait and receive rounded to two decimals (a
\* whole number of hundredths of a millisecond, no further than half a
\* hundredth from the sum), and does not change with the ssl phase.
C12_Time ==
    pure_out # None
    => LET time == pure_out[1].time
           sum == PhaseSum(pure_out[1].timings)
       IN /\ time % (Ms \div 100) = 0
          /\ 2 * (time - sum) <= Ms \div 100
          /\ 2 * (sum - time) <= Ms \div 100
          /\ SslPlaysNoPart

\* C12 witness: a request with a connect phase and an ssl phase inside it:
\* the time is built, is less than the sum with ssl would be, and is not the
\* unrounded sum.
C12_Witness ==
    /\ pure_out # None
    /\ pure_out[1].timings.ssl > 0
    /\ pure_out[1].timings.connect > pure_out[1].timings.ssl
    /\ pure_out[1].time < PhaseSum(pure_out[1].timings) + pure_out[1].timings.ssl - Ms
    /\ pure_out[1].time # PhaseSum(pure_out[1].timings)

\* the list is in ascending order of the requests' wallTimes
Ascending(list) ==
    \A i, j \in DOMAIN list : i < j => list[i].startedDateTime <= list[j].startedDateTime

\* the two lists hold the same entries, each as many times
SameEntries(a, b) ==
    /\ Len(a) = Len(b)
    /\ \A w \in WallTimes :
          Cardinality({i \in DOMAIN a : a[i].startedDateTime = w})
             = Cardinality({i \in DOMAIN b : b[i].startedDateTime = w})

\* C13: HarCapture.entries, to_dict() and save() each give the recorder's
\* entries, all of them, in ascending order of startedDateTime, whatever the
\* order they were appended in; the list handed out is a new list, reading
\* leaves the recorder's list as it is, and so does a change the caller makes
\* to the list it was handed.
C13_ExportOrdering ==
    /\ [][(capture_entries \/ capture_to_dict)
            => /\ Ascending(returned'[1].items)
               /\ SameEntries(returned'[1].items, entries)
               /\ ~returned'[1].is_recorder_list
               /\ entries' = entries]_vars
    /\ [][capture_save
            => /\ Ascending(saved'[1].entries)
               /\ SameEntries(saved'[1].entries, entries)
               /\ entries' = entries]_vars
    /\ [][caller_pops_first => entries' = entries]_vars

\* C13 witness: three entries appended latest first, read in ascending order
\* and saved in ascending order, and the caller has taken one off its list.
C13_Witness ==
    /\ Len(entries) = 3
    /\ \A i \in 1..3 : entries[i].startedDateTime = 4 - i
    /\ returned # None
    /\ Len(returned[1].items) = 2
    /\ returned[1].items[1].startedDateTime = 2
    /\ saved # None
    /\ Len(saved[1].entries) = 3
    /\ \A i \in 1..3 : saved[1].entries[i].startedDateTime = i

\* C14: start() registers one callback for each of the seven Network events,
\* and records the seven ids; stop() removes every id on the list from the tab
\* and empties the list, so from the first await of stop() on none of the
\* recorder's callbacks is registered.
C14_CallbackLifecycle ==
    /\ [][start_register
            => /\ callback_ids = <<>>
               /\ Len(callback_ids') = NumEvents
               /\ \A k \in 1..NumEvents :
                     /\ Cardinality({i \in DOMAIN callback_ids' : callback_ids'[i] = k}) = 1
                     /\ k \in tab_callbacks']_vars
    /\ [][stop_remove
            => /\ callback_ids' = <<>>
               /\ tab_callbacks' \cap Range(callback_ids) = {}]_vars
    /\ [](phase = "recording" => tab_callbacks = Range(callback_ids))
    /\ [](phase \in {"gathering", "disabling", "stopped"}
          => tab_callbacks = {} /\ callback_ids = <<>>)

\* C14 witness: stop() has returned after a recording in which the tab
\* delivered events of the last kind to the recorder, and no callback is left.
C14_Witness ==
    /\ phase = "stopped"
    /\ \E i \in DOMAIN entries : entries[i].response.statusText = "net::ERR_FAILED"
    /\ tab_callbacks = {}
    /\ callback_ids = <<>>

\* C15: the tab's Network domain is switched on only by start(), when it was
\* off, and off only by the end of a stop() whose start() switched it on; when
\* stop() has returned it is as it was before start().
C15_NetworkEventsRestored ==
    /\ [][tab_network_events_enabled' # tab_network_events_enabled
            => \/ start_enable /\ ~hist.network_events_before
               \/ stop_disable /\ network_was_enabled /\ ~hist.network_events_before]_vars
    /\ [][start_register /\ phase = "new" => ~network_was_enabled']_vars
    /\ [](phase = "stopped"
          => /\ tab_network_events_enabled = hist.network_events_before
             /\ ~network_was_enabled)

\* C15 witness: the domain was off before start(), events were delivered during
\* the recording, and it is off again after stop().
C15_Witness ==
    /\ phase = "stopped"
    /\ ~hist.network_events_before
    /\ delivered > 0
    /\ ~tab_network_events_enabled

\* the context's inherited IFrameContext, or None
Inherited(context) == context.iframe_context

\* C16 (as claimed): a context that carries an inherited IFrameContext resolves
\* to that context's session handler and session id; otherwise one with the
\* routing fields set resolves to the routing handler and routing session id;
\* otherwise the context resolves to its own connection and no session id.
C16_RoutingAsClaimed ==
    pure_out # None
    => LET context == pure_in[1]
           routing == pure_out[1]
       IN IF Inherited(context) # None
          THEN /\ Some(routing.handler) = Inherited(context)[1].session_handler
               /\ routing.session_id = Inherited(context)[1].session_id
          ELSE IF context.routing_session_handler # None
          THEN /\ Some(routing.handler) = context.routing_session_handler
               /\ routing.session_id = context.routing_session_id
          ELSE /\ routing.handler = context.connection_handler
               /\ routing.session_id = None

\* C16 (amended): a context that carries an inherited IFrameContext whose
\* session handler is set resolves to that context's session handler and
\* session id; otherwise (no inherited context, or one without a session
\* handler) a context with the routing handler set resolves to the routing
\* handler and routing session id; otherwise the context resolves to its own
\* connection and no session id.
C16_Routing ==
    pure_out # None
    => LET context == pure_in[1]
           routing == pure_out[1]
       IN IF Inherited(context) # None /\ Inherited(context)[1].session_handler # None
          THEN /\ Some(routing.handler) = Inherited(context)[1].session_handler
               /\ routing.session_id = Inherited(context)[1].session_id
          ELSE IF context.routing_session_handler # None
          THEN /\ Some(routing.handler) = context.routing_session_handler
               /\ routing.session_id = context.routing_session_id
          ELSE /\ routing.handler = context.connection_handler
               /\ routing.session_id = None

\* C16 witness: a context with an inherited IFrameContext of session S1 on the
\* browser handler and with routing fields for session S2 has resolved to the
\* browser handler and S1.
C16_Witness ==
    /\ pure_out # None
    /\ pure_in[1].iframe_context # None
    /\ pure_in[1].routing_session_id = Some("S2")
    /\ pure_out[1] = [handler |-> "browser", session_id |-> Some("S1")]

\* C17: a command a context sends is handed to the handler the context's
\* routing resolves to; if the routing resolves to a session id the command
\* goes out with that sessionId, whatever it had; if the context has no
\* routing (no inherited context with a session handler, no routing handler)
\* it is handed to the context's own connection as it came, no sessionId added.
C17_SessionStamping ==
    [][\A command \in Commands :
          execute_command(command)
          => LET context == pure_in[1]
                 routing == resolve_routing(context)
                 sent == Last(wire')
             IN /\ Len(wire') = Len(wire) + 1
                /\ sent.handler = routing.handler
                /\ sent.command.method = command.method
                /\ routing.session_id # None => sent.command.sessionId = routing.session_id
                /\ (/\ ~(Inherited(context) # None
                          /\ Inherited(context)[1].session_handler # None)
                    /\ context.routing_session_handler = None)
                   => /\ sent.handler = context.connection_handler
                      /\ sent.command = command]_vars

\* C17 witness: a fresh command went out on the browser handler with sessionId
\* S1, from a context inside an out-of-process iframe.
C17_Witness ==
    /\ wire # <<>>
    /\ pure_in[1].iframe_context = Some([session_handler |-> Some("browser"),
                                         session_id |-> Some("S1")])
    /\ wire[1] = [handler |-> "browser",
                  command |-> [method |-> "Runtime.evaluate", sessionId |-> Some("S1")]]

\* a call across iframes, and a call on a selector of one segment
Across == finder # None /\ finder[1].segments > 1
Single == finder # None /\ finder[1].segments = 1
\* the time the call has taken is past its timeout
PastTimeout == clock - finder[1].start_time > finder[1].timeout * 2
\* the contexts a walk has entered when it searches for segment i: the iframes
\* found for the segments before
Entered(i) == [k \in 1..(i - 1) |-> k]
\* the element was found for the last segment, in the iframe of the one before
FromLastContext(element) ==
    /\ element.segment = finder[1].segments
    /\ element.context = Entered(finder[1].segments)

\* C18: in a walk across iframes, when the search for a segment that is not the
\* last finds nothing, or an element that is no iframe, the attempt is over
\* and the call sleeps, raises, or returns None ([] when all matches were asked
\* for); and an element a call across iframes returns was found for the last
\* segment, in the context of the iframes found for all the segments before.
C18_NoPartialResolution ==
    /\ [][\A outcome \in ElementOutcomes, ticks \in StepTicks :
             (/\ across_search_answered(outcome, ticks)
              /\ finder[1].i < finder[1].segments
              /\ ~outcome.objectId \/ ~outcome.is_iframe)
             => /\ finder'[1].attempts = finder[1].attempts + 1
                /\ \/ finder'[1].pc = "sleeping"
                   \/ finder'[1].outcome \in
                         {Some(Raised("ElementNotFound")), Some(Raised("WaitElementTimeout")),
                          Some(Returned(IF finder[1].find_all THEN List(<<>>)
                                        ELSE NoneValue))}]_vars
    /\ [](Across /\ finder[1].outcome # None /\ finder[1].outcome[1].kind = "returned"
          => LET value == finder[1].outcome[1].value IN
             /\ value.type = "element" => FromLastContext(value)
             /\ value.type = "list"
                => \A k \in DOMAIN value.items : FromLastContext(value.items[k]))

\* C18 witness: a call on two segments, without timeout and without raising,
\* whose first segment matched an element that is no iframe, has returned None.
C18_Witness ==
    /\ Across
    /\ finder[1].segments = 2
    /\ finder[1].i = 1
    /\ finder[1].found # None
    /\ finder[1].found[1].objectId
    /\ ~finder[1].found[1].is_iframe
    /\ finder[1].outcome = Some(Returned(NoneValue))

\* C19: a call across iframes that has ended has returned what its last
\* attempt found, or, its last attempt having failed: without timeout, it made
\* one attempt and raised ElementNotFound (raise_exc) or returned None ([] for
\* all matches); with a timeout, the time it took is past the timeout and it
\* raised WaitElementTimeout (raise_exc) or returned None ([] for all
\* matches).  It sleeps only with a timeout not yet passed, for at least 0.5 s,
\* and starts again from the first segment in its own context.
C19_AcrossRetry ==
    /\ [](Across /\ finder[1].outcome # None
          => LET f == finder[1]
                 o == f.outcome[1]
                 not_found == IF f.raise_exc THEN "raised"
                              ELSE IF f.find_all THEN "[]" ELSE "None"
             IN \/ o.kind = "returned" /\ Truthy(o.value)
                \/ /\ f.timeout = 0
                   /\ f.attempts = 1
                   /\ not_found = "raised" => o = Raised("ElementNotFound")
                   /\ not_found = "[]" => o = Returned(List(<<>>))
                   /\ not_found = "None" => o = Returned(NoneValue)
                \/ /\ f.timeout > 0
                   /\ PastTimeout
                   /\ not_found = "raised" => o = Raised("WaitElementTimeout")
                   /\ not_found = "[]" => o = Returned(List(<<>>))
                   /\ not_found = "None" => o = Returned(NoneValue))
    /\ [](Across /\ finder[1].timeout = 0 => finder[1].attempts <= 1)
    /\ [](Across /\ finder[1].pc = "sleeping" => finder[1].timeout > 0 /\ ~PastTimeout)
    /\ [][Across /\ finder[1].pc = "sleeping" /\ finder'[1].pc # "sleeping"
            => /\ clock' >= clock + 1
               /\ finder'[1].pc = "searching"
               /\ finder'[1].i = 1
               /\ finder'[1].context = <<>>]_vars

\* C19 witness: a call on two segments with a timeout of one second has raised
\* WaitElementTimeout after more than one attempt, the last of which got into
\* the iframe and found nothing there.
C19_Witness ==
    /\ Across
    /\ finder[1].segments = 2
    /\ finder[1].timeout = 1
    /\ finder[1].attempts > 1
    /\ finder[1].i = 2
    /\ finder[1].outcome = Some(Raised("WaitElementTimeout"))

\* C20: a call on one segment that has ended made at least one attempt; without
\* timeout it made exactly one, and raised ElementNotFound (only with
\* raise_exc) or returned an element, a list or None; with a timeout it
\* returned the element or the non-empty list an attempt found, or else, the
\* time it took being past the timeout, raised WaitElementTimeout (raise_exc)
\* or returned None.  An attempt of the polling loop that finds something ends
\* the call with it; the loop sleeps only while the timeout has not passed;
\* and every call ends.
C20_PollingTerminates ==
    /\ [](Single /\ finder[1].outcome # None
          => LET f == finder[1]
                 o == f.outcome[1]
             IN /\ f.attempts >= 1
                /\ \/ /\ f.timeout = 0
                      /\ f.attempts = 1
                      /\ \/ o = Raised("ElementNotFound") /\ f.raise_exc
                         \/ o.kind = "returned" /\ Truthy(o.value)
                         \/ o = Returned(List(<<>>)) /\ f.find_all
                         \/ o = Returned(NoneValue) /\ ~f.find_all /\ ~f.raise_exc
                   \/ /\ f.timeout > 0
                      /\ o.kind = "returned"
                      /\ Truthy(o.value)
                   \/ /\ f.timeout > 0
                      /\ PastTimeout
                      /\ o = (IF f.raise_exc THEN Raised("WaitElementTimeout")
                              ELSE Returned(NoneValue)))
    /\ [][\A outcome \in SearchOutcomes, ticks \in StepTicks :
             (poll_search_answered(outcome, ticks) /\ outcome.objectId /\ outcome.count > 0)
             => /\ finder'[1].outcome # None
                /\ finder'[1].outcome[1].kind = "returned"
                /\ Truthy(finder'[1].outcome[1].value)]_vars
    /\ [](Single /\ finder[1].pc = "sleeping" => finder[1].timeout > 0 /\ ~PastTimeout)
    /\ (finder # None ~> (finder # None /\ finder[1].outcome # None))

\* C20 witness: a call for all matches of one segment with a timeout of one
\* second, not raising, has returned None after more than one attempt.
C20_Witness ==
    /\ Single
    /\ finder[1].timeout = 1
    /\ finder[1].find_all
    /\ finder[1].attempts > 1
    /\ finder[1].outcome = Some(Returned(NoneValue))

\* the caller's call: None before the call, else the id of its command and how
\* the call ended, if it has
CallOf(caller) == connection.callers[caller][1]

\* the callers whose command is outstanding
Outstanding ==
    {caller \in Callers : connection.callers[caller] # None /\ CallOf(caller).outcome = None}

\* the callers whose command was answered
Answered ==
    {caller \in Callers :
        /\ connection.callers[caller] # None
        /\ CallOf(caller).outcome # None
        /\ CallOf(caller).outcome[1].kind = "returned"}

\* C21: every caller whose command was sent has the frame of its own command
\* under its id, every caller that was answered holds the response with the id
\* of its own command, which is the browser's answer to that command, and the
\* ids on the socket are strictly increasing, so none is used twice
C21_CommandCorrelation ==
    /\ \A caller \in Callers :
          (connection.callers[caller] # None /\ CallOf(caller).id > 0) =>
              \E i \in 1..Len(connection.sent) :
                  connection.sent[i] = [id |-> CallOf(caller).id, command |-> CommandOf(caller)]
    /\ \A caller \in Answered :
          /\ CallOf(caller).outcome[1].value.id = CallOf(caller).id
          /\ CallOf(caller).outcome[1].value = ResponseTo([id |-> CallOf(caller).id,
                                                            command |-> CommandOf(caller)])
    /\ \A i, j \in 1..Len(connection.sent) :
          i < j => connection.sent[i].id < connection.sent[j].id

\* three commands were outstanding together and the last one sent is answered
\* first
C21_Witness ==
    /\ Len(connection.sent) = 3
    /\ \E last \in Answered : CallOf(last).id = 3
    /\ \E first, second \in Outstanding : CallOf(first).id = 1 /\ CallOf(second).id = 2

\* C22: when the transport closes, every command outstanding at that moment
\* fails with WebSocketConnectionClosed, so on a closed connection no caller
\* waits; and a closed connection stays closed and sends nothing more
C22_CloseFailsWaiters ==
    /\ [][(connection.open /\ ~connection'.open) =>
             \A caller \in Outstanding :
                 connection'.callers[caller][1].outcome =
                     Some(Raised("WebSocketConnectionClosed"))]_vars
    /\ [](~connection.open => Outstanding = {} /\ connection.pending_commands = {})
    /\ [][~connection.open => (~connection'.open /\ connection'.sent = connection.sent)]_vars

\* the transport closed on two outstanding commands
C22_Witness ==
    /\ ~connection.open
    /\ \E one, other \in Callers :
          /\ one # other
          /\ connection.callers[one] # None /\ connection.callers[other] # None
          /\ CallOf(one).id > 0 /\ CallOf(other).id > 0
          /\ CallOf(one).outcome = Some(Raised("WebSocketConnectionClosed"))
          /\ CallOf(other).outcome = Some(Raised("WebSocketConnectionClosed"))


\* the invocations scheduled for the n-th delivery
InvocationsOf(conn, n) ==
    {k \in 1..Len(conn.invocations) : conn.invocations[k].delivery = n}

\* the delivery of this step, if the step is one
Delivering == Len(connection'.deliveries) = Len(connection.deliveries) + 1

\* the invocation scheduled first among those that have not run
NextToRun(k) ==
    /\ k \in 1..Len(connection.invocations)
    /\ connection.invocations[k].state = "scheduled"
    /\ \A j \in 1..(k - 1) : connection.invocations[j].state # "scheduled"

\* C23: a delivery schedules every handler registered for its event, whatever
\* became of the handlers invoked before; an invocation that raised or never
\* completes leaves the next scheduled invocation able to run and the
\* connection able to deliver; and the invocation of an async callback
\* registered through Tab.on returns, neither raising nor staying open,
\* leaving the callback's run to a task that is still pending when it returns
C23_CallbackIsolation ==
    /\ [][Delivering =>
             LET n == Len(connection'.deliveries) IN
             \A r \in 1..Len(connection.event_callbacks) :
                 connection.event_callbacks[r].event = connection'.deliveries[n] =>
                     \E k \in InvocationsOf(connection', n) :
                         connection'.invocations[k].callback_id =
                             connection.event_callbacks[r].id]_vars
    /\ [](\A k \in 1..Len(connection.invocations) :
             NextToRun(k) => ENABLED invocation_runs(k))
    /\ [](Len(connection.deliveries) < MaxDeliveries =>
             \A event_name \in EventNames : ENABLED event_received(event_name))
    /\ [](\A k \in 1..Len(connection.invocations) :
             connection.invocations[k].function.callback.is_coroutine =>
                 connection.invocations[k].state \in {"scheduled", "returned"})
    /\ [][\A k \in 1..Len(connection.invocations) :
             (/\ connection.invocations[k].function.callback.is_coroutine
              /\ connection.invocations[k].state = "scheduled"
              /\ connection'.invocations[k].state = "returned") =>
                 /\ Len(connection'.tasks) = Len(connection.tasks) + 1
                 /\ connection'.tasks[Len(connection'.tasks)] =
                        [callback_id |-> connection.invocations[k].callback_id,
                         delivery |-> connection.invocations[k].delivery,
                         callback |-> connection.invocations[k].function.callback,
                         state |-> "pending"]]_vars

\* a handler raised; the other handler of the event, an async callback that
\* never completes, was invoked for that delivery and for the next, each time
\* returning with its task left pending
C23_Witness ==
    /\ Len(connection.deliveries) = 2
    /\ \E a \in InvocationsOf(connection, 1), b \in InvocationsOf(connection, 1),
          later \in InvocationsOf(connection, 2) :
          /\ connection.invocations[a].state = "raised"
          /\ connection.invocations[b].callback_id # connection.invocations[a].callback_id
          /\ connection.invocations[later].callback_id = connection.invocations[b].callback_id
          /\ connection.invocations[b].function.callback =
                 [is_coroutine |-> TRUE, ends |-> "never"]
          /\ connection.invocations[b].state = "returned"
          /\ connection.invocations[later].state = "returned"
    /\ \E t \in 1..Len(connection.tasks) :
          connection.tasks[t].delivery = 1 /\ connection.tasks[t].state = "pending"

\* the invocations of the registration with the id
InvocationsFor(conn, callback_id) ==
    {k \in 1..Len(conn.invocations) : conn.invocations[k].callback_id = callback_id}

\* the registration with the id is in the registry
Registered(conn, callback_id) ==
    \E r \in 1..Len(conn.event_callbacks) : conn.event_callbacks[r].id = callback_id

\* the ids of the registrations asked for with temporary=True
Temporaries == {id \in 1..Len(connection.asked) : connection.asked[id].temporary}

\* C24: a registration asked for with temporary=True is invoked at most once;
\* the delivery of its event while it is registered invokes it and removes it;
\* and once it was invoked, however the invocation went, it is registered no
\* more
C24_TemporaryFiresOnce ==
    /\ [](\A id \in Temporaries : Cardinality(InvocationsFor(connection, id)) <= 1)
    /\ [](\A id \in Temporaries :
             InvocationsFor(connection, id) # {} => ~Registered(connection, id))
    /\ [][Delivering =>
             LET n == Len(connection'.deliveries) IN
             \A id \in Temporaries :
                 (Registered(connection, id)
                  /\ connection.asked[id].event = connection'.deliveries[n]) =>
                     /\ \E k \in InvocationsOf(connection', n) :
                            connection'.invocations[k].callback_id = id
                     /\ ~Registered(connection', id)]_vars

\* a temporary registration whose handler raised at the first delivery of its
\* event, and that event delivered once more
C24_Witness ==
    /\ Len(connection.deliveries) = 2
    /\ connection.deliveries[1] = connection.deliveries[2]
    /\ \E id \in Temporaries :
          /\ connection.asked[id].event = connection.deliveries[1]
          /\ \E k \in InvocationsOf(connection, 1) :
                /\ connection.invocations[k].callback_id = id
                /\ connection.invocations[k].state = "raised"


\* the phase as claimed: -1 unless both ends are there, else their distance,
\* not below 0
PhaseAsClaimed(s, e) == IF s >= 0 /\ e >= 0 THEN Max(e - s, 0) ELSE Absent

\* v is x to three decimals: a whole number of thousandths of a millisecond,
\* no further than half a thousandth from x
ToThousandths(v, x) ==
    /\ v % (Ms \div 1000) = 0
    /\ 2 * (v - x) <= Ms \div 1000
    /\ 2 * (x - v) <= Ms \div 1000

\* the start of the first phase that has one, of dns, connect and send
FirstStart(t) ==
    IF t.dnsStart >= 0 THEN t.dnsStart
    ELSE IF t.connectStart >= 0 THEN t.connectStart ELSE t.sendStart

\* the timestamps give no receive time
NoReceiveTime(p) ==
    \/ p.response_timestamp = 0
    \/ p.finished_timestamp = 0
    \/ p.finished_timestamp <= p.response_timestamp

\* without a timing object blocked, dns, connect and ssl are -1 and send and
\* wait are 0
NoTimingDefaults(timings) ==
    /\ timings.blocked = Absent /\ timings.dns = Absent
    /\ timings.connect = Absent /\ timings.ssl = Absent
    /\ timings.send = 0 /\ timings.wait = 0

\* send, wait and receive are never negative, and receive is 0 without a
\* receive time
NeverNegative(p, timings) ==
    /\ timings.send >= 0 /\ timings.wait >= 0 /\ timings.receive >= 0
    /\ NoReceiveTime(p) => timings.receive = 0

\* C25 (as claimed): blocked, dns, connect and ssl are each -1 when the pair
\* they are computed from is not there and max(end - start, 0) otherwise
\* (blocked from the request's start to the start of its first phase); send,
\* wait and receive are never negative and 0 when unavailable; without a
\* timing object blocked = dns = connect = ssl = -1 and send = wait = 0
C25_PhasesAsClaimed ==
    pure_out # None
    => LET p == pure_in[1]
           timings == pure_out[1].timings
       IN /\ NeverNegative(p, timings)
          /\ IF p.timing = None THEN NoTimingDefaults(timings)
             ELSE LET t == p.timing[1] IN
                  /\ timings.blocked = PhaseAsClaimed(0, FirstStart(t))
                  /\ timings.dns = PhaseAsClaimed(t.dnsStart, t.dnsEnd)
                  /\ timings.connect = PhaseAsClaimed(t.connectStart, t.connectEnd)
                  /\ timings.ssl = PhaseAsClaimed(t.sslStart, t.sslEnd)

\* C25 (amended): dns, connect and ssl are each -1 when not both ends of the
\* pair are >= 0 and otherwise max(end - start, 0) to three decimals; with a
\* timing object blocked is the start of the first phase that has one, not
\* below 0, to three decimals, and never -1; send and wait are the distances
\* sendStart..sendEnd and sendEnd..receiveHeadersStart, not below 0, to three
\* decimals; send, wait and receive are never negative and receive is 0 without
\* a receive time; without a timing object blocked = dns = connect = ssl = -1
\* and send = wait = 0
C25_Phases ==
    pure_out # None
    => LET p == pure_in[1]
           timings == pure_out[1].timings
           Phase(v, s, e) == IF s >= 0 /\ e >= 0 THEN ToThousandths(v, Max(e - s, 0))
                             ELSE v = Absent
       IN /\ NeverNegative(p, timings)
          /\ IF p.timing = None THEN NoTimingDefaults(timings)
             ELSE LET t == p.timing[1] IN
                  /\ ToThousandths(timings.blocked, Max(FirstStart(t), 0))
                  /\ timings.blocked >= 0
                  /\ Phase(timings.dns, t.dnsStart, t.dnsEnd)
                  /\ Phase(timings.connect, t.connectStart, t.connectEnd)
                  /\ Phase(timings.ssl, t.sslStart, t.sslEnd)
                  /\ ToThousandths(timings.send, Max(t.sendEnd - t.sendStart, 0))
                  /\ ToThousandths(timings.wait, Max(t.receiveHeadersStart - t.sendEnd, 0))

\* timings built from a timing object without a dns phase and with an ssl
\* phase that is not a whole number of thousandths
C25_Witness ==
    /\ pure_out # None
    /\ pure_in[1].timing # None
    /\ pure_out[1].timings.dns = Absent
    /\ pure_out[1].timings.ssl > 0
    /\ pure_out[1].timings.ssl # pure_in[1].timing[1].sslEnd - pure_in[1].timing[1].sslStart


\* the Network.getResponseBody command failed
FailedFetch == [ok |-> FALSE, body |-> <<>>, base64Encoded |-> FALSE]

\* C26: a body task whose Network.getResponseBody command fails appends one
\* entry, the only one of its request, with empty content; and stop() leaves
\* its wait for the body tasks only by its flush, however the tasks ended, so
\* that when it has returned nothing is pending and the Network domain is as
\* it was before start()
C26_BodyFetchFailureContained ==
    /\ [][\A i \in DOMAIN body_tasks :
             finalize_entry_end(i, FailedFetch) =>
                 LET p == body_tasks[i].pending[1] IN
                 /\ Len(entries') = Len(entries) + 1
                 /\ SubSeq(entries', 1, Len(entries)) = entries
                 /\ Last(entries').startedDateTime = p.wall_time
                 /\ Last(entries').url = p.url
                 /\ Last(entries').response.content_size = 0
                 /\ EntriesOf(p.wall_time) = {}]_vars
    /\ [][phase = "gathering" /\ phase' # "gathering" =>
             /\ phase' = IF network_was_enabled THEN "disabling" ELSE "stopped"
             /\ pending' = EmptyDict
             /\ Len(entries') = Len(entries) + Cardinality(DOMAIN pending)]_vars
    /\ [](phase = "gathering" /\ (\A i \in DOMAIN body_tasks : ~body_tasks[i].awaited)
             => ENABLED stop_gathered)
    /\ [](phase \in {"new", "enabled", "recording", "gathering", "disabling", "stopped"})
    /\ [](phase = "stopped" =>
             /\ pending = EmptyDict
             /\ tab_network_events_enabled = hist.network_events_before)

\* stop() has returned after awaiting a task that raised, and the recorder has
\* the entry of a request whose body fetch failed
C26_Witness ==
    /\ phase = "stopped"
    /\ "awaited task" \in hist.raised
    /\ \E w \in DOMAIN hist.requests :
          /\ hist.requests[w].loading_finished = 1
          /\ hist.requests[w].request_id \in fetched
          /\ \E i \in EntriesOf(w) : entries[i].response.content_size = 0


\* C27 (as claimed): a handler run that ends with an exception leaves the
\* pending table and the entry list as they were before the event
C27_HandlerFailuresContained ==
    [][\A event \in MalformedEvents :
          (malformed_event(event) /\ handler_on_malformed(Tables, event).raised)
          => pending' = pending /\ entries' = entries]_vars


\* the call ended with the exception before any search: no search was
\* answered, none is awaited, and nothing was handed to a connection
RaisedAtOnce(exc) ==
    /\ finder[1].pc = "done"
    /\ finder[1].outcome = Some(Raised(exc))
    /\ finder[1].attempts = 0
    /\ finder[1].found = None
    /\ wire = <<>>

\* the expression is an XPath
IsXPath(expression) ==
    \/ SubSeq(expression, 1, 1) = <<"/">>
    \/ SubSeq(expression, 1, 2) = <<".", "/">>

\* find() was given nothing to search by
NothingGiven(criteria) ==
    criteria.id = None /\ criteria.text = None /\ criteria.attributes = {}

\* C28: find() on a CSS-only context ends with NotImplementedError, query()
\* with an XPath expression on such a context ends with NotImplementedError,
\* and find() given nothing to search by, on a context that is not CSS-only,
\* ends with ValueError, each before any search is made
C28_UsageErrorsFirst ==
    (pure_in # None /\ finder # None)
    => LET asked == pure_in[1] IN
       /\ (asked.method = "find" /\ asked.css_only) => RaisedAtOnce("NotImplementedError")
       /\ (asked.method = "query" /\ asked.css_only /\ IsXPath(asked.expression))
             => RaisedAtOnce("NotImplementedError")
       /\ (asked.method = "find" /\ ~asked.css_only /\ NothingGiven(asked.criteria))
             => RaisedAtOnce("ValueError")

\* find(id="main") on a ShadowRoot has raised NotImplementedError
C28_Witness ==
    /\ pure_in # None /\ finder # None
    /\ pure_in[1].method = "find"
    /\ pure_in[1].css_only
    /\ pure_in[1].criteria.id = Some("main")
    /\ RaisedAtOnce("NotImplementedError")


\* the request announced at wallTime w is in the pending table
Pending(w) == \E request_id \in DOMAIN pending : pending[request_id].wall_time = w

\* a body task holds the pending dict of the request announced at wallTime w
Fetching(w) ==
    \E i \in DOMAIN body_tasks :
        body_tasks[i].pending # None /\ body_tasks[i].pending[1].wall_time = w

\* C29: however the terminal events of a request and stop() interleave, the
\* request never has more than one entry, and once it has its entry it is
\* neither pending nor in the hands of a body task, which could make another
C29_OneEntryPerPending ==
    \A w \in DOMAIN hist.requests :
        /\ Cardinality(EntriesOf(w)) <= 1
        /\ EntriesOf(w) # {} => ~Pending(w) /\ ~Fetching(w)
        /\ ~(Pending(w) /\ Fetching(w))

\* loadingFinished was delivered twice for a pending request, both its tasks
\* are done, stop() has returned, and the request has its one entry
C29_Witness ==
    /\ phase = "stopped"
    /\ \E w \in DOMAIN hist.requests :
          /\ hist.requests[w].loading_finished = 2
          /\ Cardinality(EntriesOf(w)) = 1


\* the requestWillBeSent events that passed the resource-type filter
Accepted == {w \in DOMAIN hist.requests : PassedFilter(hist.requests[w].resource_type)}

Reannounced(w) ==
    /\ Pending(w)
    /\ Len(hist'.requests) = Len(hist.requests) + 1
    /\ Last(hist'.requests).request_id = hist.requests[w].request_id
    /\ PassedFilter(Last(hist'.requests).resource_type)

C31_FreshRouting ==
    [][\A command \in Commands :
          execute_command(command)
          => LET context == pure_in[1]
                 sent == Last(wire')
             IN IF Inherited(context) # None /\ Inherited(context)[1].session_handler # None
                THEN /\ Some(sent.handler) = Inherited(context)[1].session_handler
                     /\ Inherited(context)[1].session_id # None
                        => sent.command.sessionId = Inherited(context)[1].session_id
                ELSE IF context.routing_session_handler # None
                THEN /\ Some(sent.handler) = context.routing_session_handler
                     /\ context.routing_session_id # None
                        => sent.command.sessionId = context.routing_session_id
                ELSE /\ sent.handler = context.connection_handler
                     /\ sent.command = command]_vars

\* C31 witness: the context resolved to its own connection and sent a command
\* there; then the IFrameContext of session S1 was attached, and the next
\* command went out on the browser handler with sessionId S1.
C31_Witness ==
    /\ Len(wire) = 2
    /\ pure_out = Some([handler |-> OwnHandler, session_id |-> None])
    /\ wire[1].handler = OwnHandler
    /\ wire[2].handler = "browser"
    /\ wire[2].command.sessionId = Some("S1")


\* the element carries an inherited IFrameContext; it has routing fields
HasInherited(element) == element.iframe_context # None
HasRoutingFields(element) ==
    \/ element.routing_session_handler # None
    \/ element.routing_session_id # None
    \/ element.routing_parent_frame_id # None

\* C32: an element _find_element or _find_elements makes from a context that
\* is inside an iframe (the finder is an iframe with its own context, or
\* carries an inherited one) has that IFrameContext as its _iframe_context and
\* no routing field, if it is no iframe; if it is an iframe it has no
\* _iframe_context and the routing fields of that context: its session handler
\* (the finder's connection handler when the context has none), its session id
\* and its frame id; never both.  An element made outside any iframe context
\* has neither.
C32_ExclusiveRoles ==
    pure_out # None
    => LET finder_context == pure_in[1]
           context == IF finder_context.is_iframe /\ finder_context.own_context # None
                      THEN finder_context.own_context
                      ELSE finder_context.iframe_context
       IN \A k \in DOMAIN pure_out[1] :
             LET element == pure_out[1][k]
             IN /\ ~(HasInherited(element) /\ HasRoutingFields(element))
                /\ context = None => ~HasInherited(element) /\ ~HasRoutingFields(element)
                /\ context # None /\ ~element.is_iframe
                   => element.iframe_context = context
                /\ context # None /\ element.is_iframe
                   => /\ element.routing_session_handler # None
                      /\ context[1].session_handler # None
                         => element.routing_session_handler = context[1].session_handler
                      /\ context[1].session_handler = None
                         => element.routing_session_handler
                            = Some(finder_context.connection_handler)
                      /\ element.routing_session_id = context[1].session_id
                      /\ element.routing_parent_frame_id = Some(context[1].frame_id)

\* C32 witness: _find_elements, called on a context inside an out-of-process
\* iframe, made an iframe element with the routing fields and a plain element
\* with the inherited context.
C32_Witness ==
    /\ pure_out # None
    /\ Len(pure_out[1]) = 2
    /\ pure_in[1].iframe_context # None
    /\ pure_in[1].iframe_context[1].session_id = Some("S1")
    /\ pure_out[1][1].is_iframe /\ pure_out[1][1].routing_session_id = Some("S1")
    /\ ~pure_out[1][2].is_iframe /\ pure_out[1][2].iframe_context = pure_in[1].iframe_context



\* the IFrameContext a shadow root is routed by: its host element's when the
\* host was resolved, otherwise its own
ContextOf(shadow_root) ==
    IF shadow_root.host_element # None THEN shadow_root.host_element[1].iframe_context
    ELSE shadow_root.iframe_context

\* C33: every shadow root OOPIF discovery has collected has one IFrameContext,
\* on its host element when the host was resolved and otherwise on the shadow
\* root itself, for an iframe target that was attached, with the browser-level
\* handler and the session id that attaching to that very target gave; a
\* target whose attach or document fetch failed adds no shadow root, and the
\* loop goes on to the next target whatever happened to this one.
C33_OopifRouting ==
    /\ [](pure_out # None
          => \A k \in DOMAIN pure_out[1].shadow_roots :
                LET shadow_root == pure_out[1].shadow_roots[k]
                    context == ContextOf(shadow_root)
                IN /\ context # None
                   /\ shadow_root.host_element # None => shadow_root.iframe_context = None
                   /\ context[1].frame_id \in IframeTargets
                   /\ context[1].frame_id < pure_out[1].target
                   /\ context[1].session_handler = Some(BrowserHandler)
                   /\ pure_out[1].attached[context[1].frame_id] \in SessionIds
                   /\ context[1].session_id = Some(pure_out[1].attached[context[1].frame_id]))
    /\ [][pure_out # None /\ pure_out' # pure_out
          => LET target_id == pure_out[1].target
                 before == pure_out[1].shadow_roots
                 after == pure_out'[1].shadow_roots
             IN /\ pure_out'[1].target = target_id + 1
                /\ SubSeq(after, 1, Len(before)) = before
                /\ (\/ target_id \notin IframeTargets
                    \/ pure_out'[1].attached[target_id] \notin SessionIds
                    \/ pure_out'[1].documents[target_id].outcome \in CommandFailures)
                   => after = before
                /\ Len(after) - Len(before)
                   = pure_out'[1].documents[target_id].resolvable]_vars

\* C33 witness: the attach to the first iframe target failed and the second
\* iframe target gave two shadow roots, one with its host resolved and one
\* without, both for the session of the second target.
C33_Witness ==
    /\ pure_out # None
    /\ pure_out[1].target = 3
    /\ pure_out[1].attached[1] \in CommandFailures
    /\ pure_out[1].attached[2] \in SessionIds
    /\ Len(pure_out[1].shadow_roots) = 2
    /\ pure_out[1].shadow_roots[1].host_element # None
    /\ pure_out[1].shadow_roots[2].host_element = None
    /\ \A k \in 1..2 :
          ContextOf(pure_out[1].shadow_roots[k])[1].session_id = Some(pure_out[1].attached[2])


\* the page-load wait in progress or over
PageLoad == pure_out[1]

Download == pure_out[1]

\* C35 (as claimed): however expect_download is left (the block ended and the
\* download completed, DownloadTimeout, the block raised), the progress
\* listener is registered no more, the download behaviour is the default
\* again, and the Page events are on exactly if they were on before.
C35_DownloadCleanup ==
    Download.pc = "done"
    => /\ "on_progress" \notin Download.callbacks
       /\ Download.download_behavior = "default"
       /\ Download.page_events_enabled = pure_in[1].page_events_enabled


\* C36 (as claimed): while a recorder of the tab has been started and not yet
\* stopped the Network domain is on; and once both recorders are stopped it
\* is on exactly if it was on before the first start.
C36_OverlappingRecorders ==
    LET tab == pure_out[1] IN
    /\ (\E r \in Recorders : tab.recorders[r].pc = "recording") => tab.network_events_enabled
    /\ (\A r \in Recorders : tab.recorders[r].pc = "stopped")
       => tab.network_events_enabled = pure_in[1]


\* C37 (as claimed): when stop() has returned the table of dataReceived byte
\* counters is empty, whether the ids had a pending entry or not.
C37_SideTableCleanedUp ==
    phase = "stopped" => DOMAIN data_received_sizes = {}


\* C38: the success reply (REP = 0) is written to the client only after the
\* remote proxy has selected a method the forwarder accepts, has accepted
\* the username and password when it selected that method, and has answered
\* CONNECT with success; client payload is written to the remote proxy only
\* after the success reply; and a handler that ends without the remote
\* proxy's success has written neither.
SuccessReplied(h) ==
    \E k \in DOMAIN h.client_sent :
        h.client_sent[k].kind = "reply" /\ h.client_sent[k].code = REPLY_SUCCESS

PayloadRelayed(h) == \E k \in DOMAIN h.remote_sent : h.remote_sent[k] = "payload"

Socks == pure_out[1]

C38_HandshakeOrder ==
    /\ SuccessReplied(Socks) =>
          /\ Socks.method \in {Some(AUTH_NO_AUTH), Some(AUTH_USERNAME_PASSWORD)}
          /\ Socks.method = Some(AUTH_USERNAME_PASSWORD) => Socks.authenticated
          /\ Socks.connected
    /\ PayloadRelayed(Socks) => SuccessReplied(Socks)
    /\ ~Socks.connected => ~SuccessReplied(Socks) /\ ~PayloadRelayed(Socks)

C38_Witness ==
    /\ Socks.method = Some(AUTH_USERNAME_PASSWORD)
    /\ SuccessReplied(Socks)
    /\ PayloadRelayed(Socks)
    /\ Socks.pc = "finished"


\* C39: when the client handler has finished, however it ended, the client
\* writer has been closed and so has the remote writer if the connection to
\* the remote proxy was opened; and a pipe that has ended has closed the
\* writer it feeds.
C39_BothSidesClosed ==
    /\ Socks.pc = "finished" =>
          /\ Socks.client_closed
          /\ Socks.remote_writer => Socks.remote_closed
    /\ Socks.pipes["client->remote"] = "done" => Socks.remote_closed
    /\ Socks.pipes["remote->client"] = "done" => Socks.client_closed


\* C40: when cleanup() has ended, removal has been attempted for every
\* tracked temporary directory, whatever resisted deletion in the
\* directories before it.
Manager == pure_out[1]

C40_CleanupContinues ==
    Manager.pc = "finished" => Manager.attempted = DOMAIN Manager._temp_dirs

====
